---- MODULE Spec2Model ----
(***************************************************************************)
(* A model of the in-memory filesystem of halimath/fsx (package memfs).    *)
(*                                                                         *)
(* The filesystem is a tree of nodes (directories, files, symlinks), each  *)
(* guarded by its own sync.RWMutex.  Goroutines call the facade (Open,     *)
(* OpenFile, Mkdir, Remove, Rename, Link, Symlink, Stat) and the handle    *)
(* methods (Read, Write, Close).  Every call is broken into steps at the   *)
(* points where the code may block on a lock; what the code does between   *)
(* two such points is one step.                                            *)
(*                                                                         *)
(* Paths are strings, modelled as sequences of one-character strings, so   *)
(* that split and lsplit are computed as the code computes them.           *)
(* File content is a Go slice: a reference to a backing array plus a       *)
(* length, so that two slices over one array alias each other.             *)
(*                                                                         *)
(* Two accesses of the code are not ordered by any lock: file.open reads   *)
(* f.content before it takes the file's lock, and Link and Symlink write   *)
(* the directory's map with no lock.  The read of f.content is one step    *)
(* here (it sees the header before or after a Close, never a torn one),    *)
(* and Link and Symlink are called by one goroutine only, so no map is     *)
(* written while another goroutine uses it.                                *)
(* Leaving the torn header out removes behaviours of SpecWriters, the      *)
(* only specification in which a goroutine writes while another opens:     *)
(* what is drawn from it is a violation, which a torn header cannot undo.  *)
(***************************************************************************)
EXTENDS Integers, Sequences, FiniteSets, TLC

\* ------------------------------------------------------------------ bounds
MaxNodes == 8       \* size of the node arena
MaxArrays == 3      \* size of the arena of backing arrays
MaxLen == 3         \* longest file content
MaxCalls == 2       \* calls one goroutine makes

Threads == {1, 2}
NodeIds == 1..MaxNodes
ArrIds == 1..MaxArrays

\* ------------------------------------------------------- program constants
Nil == 0            \* Go's nil (no entry, no backing array)
Root == 1           \* memfs.root

Separator == "/"
O_RDONLY == 0
O_WRONLY == 1
O_RDWR == 2
O_CREATE == 64
O_EXCL == 128
O_APPEND == 1024

\* smallest capacity append gives a []byte (the runtime's 8 byte size class)
ByteSliceCap == 8

\* flag & bit != 0, for a flag bit that is a power of two
HasFlag(flag, bit) == (flag \div bit) % 2 = 1

\* perm.Perm() & 0400 and perm.Perm() & 0200 (octal), on a decimal perm
OwnerRead(perm) == (perm \div 256) % 2 = 1
OwnerWrite(perm) == (perm \div 128) % 2 = 1

Min(a, b) == IF a < b THEN a ELSE b

\* ------------------------------------------------------------------- paths
\* index of the first separator of p, 0 if there is none
FirstSep(p) ==
    IF \E i \in 1..Len(p) : p[i] = Separator
    THEN CHOOSE i \in 1..Len(p) :
            p[i] = Separator /\ \A j \in 1..(i - 1) : p[j] # Separator
    ELSE 0

\* index of the last separator of p, 0 if there is none
LastSep(p) ==
    IF \E i \in 1..Len(p) : p[i] = Separator
    THEN CHOOSE i \in 1..Len(p) :
            p[i] = Separator /\ \A j \in (i + 1)..Len(p) : p[j] # Separator
    ELSE 0

\* lsplit: cut at the first separator; no separator gives ("", name)
lsplit(name) ==
    LET i == FirstSep(name) IN
    IF i = 0 THEN [dir |-> <<>>, remainder |-> name]
    ELSE [dir |-> SubSeq(name, 1, i - 1), remainder |-> SubSeq(name, i + 1, Len(name))]

\* split: path.Split cuts after the last separator; the directory part then
\* loses its last character (the separator) when it is not empty
split(p) ==
    LET i == LastSep(p)
        d == SubSeq(p, 1, i)
    IN [dirName |-> IF Len(d) > 0 THEN SubSeq(d, 1, Len(d) - 1) ELSE d,
        fileName |-> SubSeq(p, i + 1, Len(p))]

\* ------------------------------------------------------------------- nodes
NilSlice == [a |-> Nil, n |-> 0]
EmptyMap == [k \in {} |-> Nil]

FreeNode == [kind |-> "free", perm |-> 0, children |-> EmptyMap,
             content |-> NilSlice, target |-> <<>>]

\* newDir(perm)
newDir(perm) == [kind |-> "dir", perm |-> perm, children |-> EmptyMap,
                 content |-> NilSlice, target |-> <<>>]

\* newFile(perm, nil)
newFile(perm) == [kind |-> "file", perm |-> perm, children |-> EmptyMap,
                  content |-> NilSlice, target |-> <<>>]

\* &symlink{targetPath: oldname}
newSymlink(oldname) == [kind |-> "symlink", perm |-> 0, children |-> EmptyMap,
                        content |-> NilSlice, target |-> oldname]

\* d.children[name], Nil when the name is absent
Child(ns, d, name) ==
    IF name \in DOMAIN ns[d].children THEN ns[d].children[name] ELSE Nil

MapPut(m, name, v) == [k \in (DOMAIN m) \cup {name} |-> IF k = name THEN v ELSE m[k]]
MapDel(m, name) == [k \in (DOMAIN m) \ {name} |-> m[k]]

\* dir.find without the locking: the node name leads to from d, or Nil
RECURSIVE Find(_, _, _)
Find(ns, d, name) ==
    IF Len(name) = 0 THEN d
    ELSE LET s == lsplit(name) IN
         IF Len(s.dir) = 0 THEN Child(ns, d, s.remainder)
         ELSE LET c == Child(ns, d, s.dir) IN
              IF c = Nil THEN Nil
              ELSE IF ns[c].kind # "dir" THEN Nil
              ELSE Find(ns, c, s.remainder)

\* ------------------------------------------------------------------ slices
\* the bytes a slice denotes
SliceBytes(arrs, s) == IF s.a = Nil THEN <<>> ELSE SubSeq(arrs[s.a], 1, s.n)

\* copy(arr[pos:], data), growing the written part of the array when data
\* reaches past it (pos is 0-based)
ArrWrite(arr, pos, data) ==
    LET hi == IF pos + Len(data) > Len(arr) THEN pos + Len(data) ELSE Len(arr) IN
    [i \in 1..hi |-> IF i > pos /\ i <= pos + Len(data) THEN data[i - pos] ELSE arr[i]]

\* the backing arrays some slice refers to
UsedArrays(ns, thr, hds) ==
    ({ns[n].content.a : n \in NodeIds} \cup {hds[t].buf.a : t \in Threads}
        \cup {thr[t].pend.buf.a : t \in Threads}) \ {Nil}

\* ------------------------------------------------------------------- state
VARIABLES
    nodes,      \* the node arena: NodeIds -> node record (memfs.root is Root)
    arrays,     \* the backing arrays of the []byte slices: ArrIds -> bytes
    locks,      \* the RWMutex of every node
    th,         \* every goroutine: where it is in its call, and its locals
    hd,         \* the handle every goroutine holds (at most one at a time)
    calls,      \* the calls every goroutine may still make
    ret,        \* what the step just taken returned to its caller, if it returned
    hist        \* history: what was written and read through the handles

vars == <<nodes, arrays, locks, th, hd, calls, ret, hist>>

\* ------------------------------------------------------------- sync.RWMutex
\* w: the goroutine inside Lock (it has announced itself), held: it has
\* passed Lock; r: how many read locks each goroutine holds
FreeLock == [w |-> 0, held |-> FALSE, r |-> [t \in Threads |-> 0]]

RECURSIVE SumOver(_, _)
SumOver(f, S) ==
    IF S = {} THEN 0
    ELSE LET x == CHOOSE y \in S : TRUE IN f[x] + SumOver(f, S \ {x})

Readers(L, n) == SumOver(L[n].r, Threads)

\* RLock returns at once unless a writer holds the lock or waits for it
CanRLock(L, n) == L[n].w = 0
\* Lock: the writer announces itself when no other writer is inside Lock ...
CanAnnounce(L, n) == L[n].w = 0
\* ... and passes when the readers have left
CanPass(L, n, t) == L[n].w = t /\ ~L[n].held /\ Readers(L, n) = 0

DoRLock(L, n, t) == [L EXCEPT ![n].r[t] = @ + 1]
DoRUnlock(L, n, t) == [L EXCEPT ![n].r[t] = @ - 1]
DoAnnounce(L, n, t) == [L EXCEPT ![n].w = t, ![n].held = (Readers(L, n) = 0)]
DoPass(L, n) == [L EXCEPT ![n].held = TRUE]
DoUnlock(L, n) == [L EXCEPT ![n].w = 0, ![n].held = FALSE]

RECURSIVE ReleaseAllReads(_, _, _)
ReleaseAllReads(L, ds, t) ==
    IF Len(ds) = 0 THEN L
    ELSE ReleaseAllReads(IF ds[1].m = "w" THEN L ELSE DoRUnlock(L, ds[1].n, t), Tail(ds), t)

\* release the locks a call has deferred: a sequence of [n, m], m "r" or "w"
RECURSIVE ReleaseAll(_, _, _)
ReleaseAll(L, ds, t) ==
    IF Len(ds) = 0 THEN L
    ELSE ReleaseAll(IF ds[1].m = "w" THEN DoUnlock(L, ds[1].n) ELSE DoRUnlock(L, ds[1].n, t),
                    Tail(ds), t)

\* ----------------------------------------------------------------- handles
NoHandle == [open |-> FALSE, node |-> Nil, path |-> <<>>, isdir |-> FALSE,
             readable |-> FALSE, writable |-> FALSE, flag |-> 0,
             buf |-> NilSlice, readCursor |-> 0, writeCursor |-> 0,
             hasEntries |-> FALSE, entries |-> <<>>, lastEntryIndex |-> 0]

\* ------------------------------------------------------------- goroutines
NoInfo == [size |-> 0, perm |-> 0, isdir |-> FALSE]
NoRes == [t |-> 0, op |-> "none", err |-> "none", path |-> <<>>, node |-> Nil,
          data |-> <<>>, info |-> NoInfo, offset |-> 0]

\* a helper of package fsx in progress: its arguments, its position, the
\* result res of the call it made last, and the frames of a recursion
NoGen == [op |-> "none", pc |-> "none", arg |-> <<>>, name |-> <<>>, perm |-> 0,
          data |-> <<>>, res |-> NoRes, err |-> "ok", isdir |-> FALSE,
          list |-> <<>>, probe |-> FALSE, stack |-> <<>>]

Idle == [pc |-> "idle", op |-> "none", path |-> <<>>, path2 |-> <<>>, flag |-> 0,
         perm |-> 0, cur |-> Nil, rest |-> <<>>, rl |-> <<>>, cont |-> "none",
         found |-> Nil, old |-> Nil, newd |-> Nil, lockn |-> Nil, defer |-> <<>>,
         sym |-> FALSE, via |-> <<>>, pend |-> NoHandle, created |-> FALSE,
         gen |-> NoGen]

\* the locals a call of t starts with: the helper of package fsx that t is in,
\* if any, goes on across the calls it makes
Locals(t) == [Idle EXCEPT !.gen = th[t].gen]

Res(op, err, path, node, data) ==
    [t |-> 0, op |-> op, err |-> err, path |-> path, node |-> node, data |-> data,
     info |-> NoInfo, offset |-> 0]
Ok(op, path, node) == Res(op, "ok", path, node, <<>>)
Err(op, err, path) == Res(op, err, path, Nil, <<>>)

\* ----------------------------------------------------------------- history
\* A history of the calls made on handles, kept beside the program's state:
\* exp[t] and cur[t] are the content and the cursor that the writes made
\* through t's handle give when they are applied, one after the other, to the
\* content the node had when the open returned; trip follows one round trip:
\* a write-only handle on a path ("writing", b the bytes written), its Close
\* ("written"), a read-only handle opened on the path after that ("reading",
\* got the bytes read) and the end of the stream ("done"); before is the tree
\* as it was when the helper of package fsx that is in progress was called;
\* infos holds the last two results of Stat that a caller has kept, the later
\* one first: the path of the *fileInfo and the node it was made of;
\* helped[t] is the last helper of package fsx that t called and that has
\* returned: its name, what it returned and the path it was called with.
NoTrip == [stage |-> "none", path |-> <<>>, append |-> FALSE, existed |-> FALSE,
           pre |-> <<>>, b |-> <<>>, got |-> <<>>, w |-> 0, r |-> 0]
NoHelp == [op |-> "none", err |-> "ok", arg |-> <<>>]
NoHist == [exp |-> [t \in Threads |-> <<>>], cur |-> [t \in Threads |-> 0], trip |-> NoTrip,
           pages |-> [t \in Threads |-> <<>>], paged |-> [t \in Threads |-> FALSE],
           before |-> <<>>, infos |-> <<>>, helped |-> [t \in Threads |-> NoHelp]]

\* p written over the bytes c from position pos (0-based), c growing as needed
Overwrite(c, pos, p) ==
    LET hi == IF pos + Len(p) > Len(c) THEN pos + Len(p) ELSE Len(c) IN
    [i \in 1..hi |-> IF i > pos /\ i <= pos + Len(p) THEN p[i - pos] ELSE c[i]]

\* an open returns the handle h to t; created tells that OpenFile made the file
HistOpen(H, t, h, content, created) ==
    LET app == HasFlag(h.flag, O_APPEND) IN
    IF h.isdir THEN [H EXCEPT !.pages[t] = <<>>, !.paged[t] = TRUE]
    ELSE [H EXCEPT
        !.exp[t] = content,
        !.cur[t] = IF h.writable /\ app THEN Len(content) ELSE 0,
        !.trip = IF h.writable /\ ~h.readable
                 THEN [NoTrip EXCEPT !.stage = "writing", !.path = h.path, !.append = app,
                                     !.existed = ~created, !.pre = content, !.w = t]
                 ELSE IF h.writable THEN NoTrip
                 ELSE IF @.stage = "written" /\ @.path = h.path
                 THEN [@ EXCEPT !.stage = "reading", !.r = t]
                 ELSE @]

\* t's Write(p) returned without error
HistWrite(H, t, p) ==
    [H EXCEPT !.exp[t] = Overwrite(@, H.cur[t], p),
              !.cur[t] = @ + Len(p),
              !.trip = IF @.stage = "writing" /\ @.w = t THEN [@ EXCEPT !.b = @ \o p] ELSE @]

\* t's Read returned data, or the end of the stream
HistRead(H, t, data, eof) ==
    [H EXCEPT !.trip = IF @.stage = "reading" /\ @.r = t
                       THEN IF eof THEN [@ EXCEPT !.stage = "done"]
                            ELSE [@ EXCEPT !.got = @ \o data]
                       ELSE @]

\* t's Close returned
HistClose(H, t) ==
    [H EXCEPT !.exp[t] = <<>>, !.cur[t] = 0, !.pages[t] = <<>>, !.paged[t] = FALSE,
              !.trip = IF @.stage = "writing" /\ @.w = t THEN [@ EXCEPT !.stage = "written"]
                       ELSE IF @.stage = "reading" /\ @.r = t THEN NoTrip
                       ELSE @]

\* Stat returned the *fileInfo of the node e, made with the path of the call
HistStat(H, path, e) ==
    [H EXCEPT !.infos = <<[path |-> path, node |-> e]>> \o SubSeq(@, 1, Min(1, Len(@)))]

\* t's Seek returned the offset o: the next Write is made there
HistSeek(H, t, o) == [H EXCEPT !.cur[t] = o]

\* t's ReadDir(n) returned the entries data: pages[t] is what the calls with
\* n > 0 have returned since the open, one page after the other, and paged[t]
\* tells that no other call of ReadDir was made on the handle
HistReadDir(H, t, n, data) ==
    IF n > 0 THEN [H EXCEPT !.pages[t] = @ \o data] ELSE [H EXCEPT !.paged[t] = FALSE]

\* -------------------------------------------------------- garbage collector
ChildrenOf(ns, n) == {ns[n].children[k] : k \in DOMAIN ns[n].children}

RECURSIVE Reach(_, _)
Reach(ns, S) ==
    LET S2 == S \cup UNION {ChildrenOf(ns, n) : n \in S} IN
    IF S2 = S THEN S ELSE Reach(ns, S2)

SeqRange(s) == {s[i] : i \in 1..Len(s)}

\* the nodes a goroutine or a handle refers to
Referenced(thr, hds) ==
    ({Root}
     \cup UNION {{thr[t].cur, thr[t].found, thr[t].old, thr[t].newd, thr[t].lockn,
                  thr[t].pend.node, hds[t].node} : t \in Threads}
     \cup UNION {SeqRange(thr[t].rl) : t \in Threads}
     \cup UNION {{d.n : d \in SeqRange(thr[t].defer)} : t \in Threads}) \ {Nil}

\* nodes nothing refers to any more are returned to the arena
CollectNodes(ns, thr, hds) ==
    LET live == Reach(ns, Referenced(thr, hds)) IN
    [n \in NodeIds |-> IF n \in live THEN ns[n] ELSE FreeNode]

CollectArrays(arrs, ns, thr, hds) ==
    LET used == UsedArrays(ns, thr, hds) IN
    [a \in ArrIds |-> IF a \in used THEN arrs[a] ELSE <<>>]

HasFreeNode(ns) == \E n \in NodeIds : ns[n].kind = "free"
NewNodeId(ns) == CHOOSE n \in NodeIds :
    ns[n].kind = "free" /\ \A m \in NodeIds : ns[m].kind = "free" => n <= m

HasFreeArray(ns, thr, hds) == \E a \in ArrIds : a \notin UsedArrays(ns, thr, hds)
NewArrayId(ns, thr, hds) == CHOOSE a \in ArrIds :
    a \notin UsedArrays(ns, thr, hds)
    /\ \A b \in ArrIds : b \notin UsedArrays(ns, thr, hds) => a <= b

\* ------------------------------------------------------------ common steps
\* the state after a step, the collector having run
Commit(ns, arrs, L, thr, hds) ==
    /\ nodes' = CollectNodes(ns, thr, hds)
    /\ arrays' = CollectArrays(arrs, CollectNodes(ns, thr, hds), thr, hds)
    /\ locks' = L
    /\ th' = thr
    /\ hd' = hds

\* the helper in progress receives the result of the call it made
Carry(g, res) == IF g.op = "none" THEN g ELSE [g EXCEPT !.res = res]

\* a call returns res: its deferred unlocks run and its locals are dropped
Return(t, res, ns, arrs, L, hds) ==
    /\ Commit(ns, arrs, ReleaseAll(L, th[t].defer, t),
              [th EXCEPT ![t] = [Idle EXCEPT !.gen = Carry(th[t].gen, [res EXCEPT !.t = t])]],
              hds)
    /\ ret' = [res EXCEPT !.t = t]

\* a call goes on with the locals r
Goto(t, r, ns, L) ==
    /\ Commit(ns, arrays, L, [th EXCEPT ![t] = r], hd)
    /\ ret' = NoRes

\* fsys.root.find(name), then the step cont: find("") returns the root at once
StartFind(r, name, cont) ==
    IF Len(name) = 0
    THEN [r EXCEPT !.found = Root, !.pc = cont]
    ELSE [r EXCEPT !.pc = "find", !.cur = Root, !.rest = name, !.cont = cont]

\* the read locks a running find holds are released when it returns
RECURSIVE ReleaseReads(_, _, _)
ReleaseReadsKept(L, ns, t) == L

ReleaseReads(L, ns, t) ==
    IF Len(ns) = 0 THEN L ELSE ReleaseReads(DoRUnlock(L, ns[1], t), Tail(ns), t)

\* what the caller of a Start begins with
Begin(t) == th[t].pc = "idle" /\ calls[t] > 0 /\ th[t].gen.op = "none"
Spend(t) == calls' = [calls EXCEPT ![t] = @ - 1] /\ UNCHANGED hist
SpendOnHandle(t) == calls' = [calls EXCEPT ![t] = @ - 1]

\* dir.find, one directory per step: read-lock d, look the next segment up,
\* go down (keeping the lock) or return (releasing every lock taken)
FindStep(t) ==
    LET r == th[t]
        s == lsplit(r.rest)
        c == Child(nodes, r.cur, s.dir)
        done(e) == Goto(t, [r EXCEPT !.pc = r.cont, !.found = e, !.cur = Nil,
                                     !.rest = <<>>, !.rl = <<>>, !.cont = "none"],
                        nodes, ReleaseReads(locks, r.rl, t))
    IN
    /\ r.pc = "find"
    /\ CanRLock(locks, r.cur)
    /\ IF Len(s.dir) = 0 THEN done(Child(nodes, r.cur, s.remainder))
       ELSE IF c = Nil THEN done(Nil)
       ELSE IF nodes[c].kind # "dir" THEN done(Nil)
       ELSE IF Len(s.remainder) = 0 THEN done(c)
       ELSE Goto(t, [r EXCEPT !.cur = c, !.rest = s.remainder, !.rl = Append(r.rl, r.cur)],
                 nodes, DoRLock(locks, r.cur, t))
    /\ UNCHANGED <<calls, hist>>

\* Lock(): announce; pass at once when there is no reader
LockStep(t) ==
    LET r == th[t] IN
    /\ r.pc = "lock"
    /\ CanAnnounce(locks, r.lockn)
    /\ Goto(t, [r EXCEPT !.pc = IF Readers(locks, r.lockn) = 0 THEN r.cont ELSE "lockwait"],
            nodes, DoAnnounce(locks, r.lockn, t))
    /\ UNCHANGED <<calls, hist>>

\* Lock(): the readers have left
LockPass(t) ==
    LET r == th[t] IN
    /\ r.pc = "lockwait"
    /\ CanPass(locks, r.lockn, t)
    /\ Goto(t, [r EXCEPT !.pc = r.cont], nodes, DoPass(locks, r.lockn))
    /\ UNCHANGED <<calls, hist>>

\* RLock()
RLockStep(t) ==
    LET r == th[t] IN
    /\ r.pc = "rlock"
    /\ CanRLock(locks, r.lockn)
    /\ Goto(t, [r EXCEPT !.pc = r.cont], nodes, DoRLock(locks, r.lockn, t))
    /\ UNCHANGED <<calls, hist>>

\* --------------------------------------------------------- open of an entry
\* flag&O_WRONLY != 0 || flag&O_RDWR != 0
WantsWrite(flag) == HasFlag(flag, O_WRONLY) \/ HasFlag(flag, O_RDWR)

\* the permission check of file.open and dir.open: wantPerm is 0400, and
\* 0600 for a writing open
PermGranted(perm, flag) ==
    OwnerRead(perm) /\ (WantsWrite(flag) => OwnerWrite(perm))

fileHandleAnyAccess(ns, e, path, flag) ==
    [open |-> FALSE, node |-> e, path |-> path, isdir |-> FALSE,
     readable |-> TRUE, writable |-> TRUE, flag |-> flag,
     buf |-> ns[e].content, readCursor |-> 0,
     writeCursor |-> IF HasFlag(flag, O_APPEND) THEN ns[e].content.n ELSE 0,
     hasEntries |-> FALSE, entries |-> <<>>, lastEntryIndex |-> 0]

\* the handle file.open builds, before it takes the lock
fileHandle(ns, e, path, flag) ==
    LET wronly == HasFlag(flag, O_WRONLY)
        rdwr == HasFlag(flag, O_RDWR)
        writable == wronly \/ rdwr
    IN [open |-> FALSE, node |-> e, path |-> path, isdir |-> FALSE,
        readable |-> ~wronly, writable |-> writable, flag |-> flag,
        buf |-> ns[e].content, readCursor |-> 0,
        writeCursor |-> IF writable /\ HasFlag(flag, O_APPEND)
                        THEN ns[e].content.n ELSE 0,
        hasEntries |-> FALSE, entries |-> <<>>, lastEntryIndex |-> 0]

\* the handle dir.open builds, before it takes the lock
dirHandle(e, path, flag) ==
    [open |-> FALSE, node |-> e, path |-> path, isdir |-> TRUE,
     readable |-> FALSE, writable |-> WantsWrite(flag), flag |-> flag,
     buf |-> NilSlice, readCursor |-> 0, writeCursor |-> 0,
     hasEntries |-> FALSE, entries |-> <<>>, lastEntryIndex |-> 0]

OpenLockShared(h) == "rlock"

\* the lock an open takes for its handle: "lock" is Lock(), "rlock" is RLock()
OpenLock(h) == IF h.writable THEN "lock" ELSE "rlock"

NotExistPathOfLink(r) == r.path

\* the path a not-found error names: the target path when a symlink was
\* followed (symlink.open, symlink.stat), the path of the call otherwise
NotExistPath(r) == IF r.sym THEN r.via ELSE r.path

\* e.open(fsys, path, flag) for the entry that was found: the permission
\* check, the handle, and then the blocking lock of the node; a symlink
\* resolves its target from the root and opens what it finds
OpenEntry(t) ==
    LET r == th[t]
        e == r.found
        op == IF r.sym THEN "open" ELSE r.op
        h == IF nodes[e].kind = "file" THEN fileHandle(nodes, e, r.path, r.flag)
             ELSE dirHandle(e, r.path, r.flag)
    IN
    /\ r.pc = "open_e"
    /\ IF e = Nil
       THEN Return(t, Err(op, "ErrNotExist", NotExistPath(r)),
                   nodes, arrays, locks, hd)
       ELSE IF nodes[e].kind = "symlink"
       THEN Goto(t, StartFind([r EXCEPT !.sym = TRUE, !.via = nodes[e].target, !.found = Nil],
                              nodes[e].target, "open_e"), nodes, locks)
       ELSE IF ~PermGranted(nodes[e].perm, r.flag)
       THEN Return(t, Err("open", "ErrPermission", r.path), nodes, arrays, locks, hd)
       ELSE Goto(t, [r EXCEPT !.pend = h, !.lockn = e, !.found = Nil,
                              !.pc = OpenLock(h), !.cont = "open_ret"], nodes, locks)
    /\ UNCHANGED <<calls, hist>>

\* open returns the handle: the node's lock stays with the handle
OpenRet(t) ==
    LET r == th[t] IN
    /\ r.pc = "open_ret"
    /\ Return(t, Ok(r.op, r.path, r.pend.node), nodes, arrays, locks,
              [hd EXCEPT ![t] = [r.pend EXCEPT !.open = TRUE]])
    /\ hist' = HistOpen(hist, t, r.pend, SliceBytes(arrays, nodes[r.pend.node].content),
                        r.created)
    /\ UNCHANGED calls

\* ----------------------------------------------------------------- memfs.Open
OpenCall(t, name) ==
    /\ ~hd[t].open
    /\ Goto(t, StartFind([Locals(t) EXCEPT !.op = "Open", !.path = name, !.flag = O_RDONLY],
                         name, "open_e"), nodes, locks)

StartOpen(t, name) ==
    /\ Begin(t)
    /\ OpenCall(t, name)
    /\ Spend(t)

\* ------------------------------------------------------------ memfs.OpenFile
\* root.RLock, then find of the parent directory
OpenFileCall(t, filePath, flag, perm) ==
    /\ ~hd[t].open
    /\ CanRLock(locks, Root)
    /\ Goto(t, StartFind([Locals(t) EXCEPT !.op = "OpenFile", !.path = filePath, !.flag = flag,
                                      !.perm = perm, !.defer = <<[n |-> Root, m |-> "r"]>>],
                         split(filePath).dirName, "of_parent"),
            nodes, DoRLock(locks, Root, t))

StartOpenFile(t, filePath, flag, perm) ==
    /\ Begin(t)
    /\ OpenFileCall(t, filePath, flag, perm)
    /\ Spend(t)

\* the parent was looked up: root.RUnlock, then parentDir.Lock
OpenFileParent(t) ==
    LET r == th[t]
        name == split(r.path).fileName
    IN
    /\ r.pc = "of_parent"
    /\ IF r.found = Nil
       THEN Return(t, Err("OpenFile", "ErrNotExist", name), nodes, arrays, locks, hd)
       ELSE IF nodes[r.found].kind # "dir"
       THEN Return(t, Err("OpenFile", "ErrInvalid", name), nodes, arrays, locks, hd)
       ELSE Goto(t, [r EXCEPT !.defer = <<[n |-> r.found, m |-> "w"]>>, !.old = r.found,
                              !.lockn = r.found, !.found = Nil,
                              !.pc = "lock", !.cont = "of_locked"],
                 nodes, DoRUnlock(locks, Root, t))
    /\ UNCHANGED <<calls, hist>>

OpenFileChildUnchecked(ns, parent, name, flag, perm) ==
    LET e == Child(ns, parent, name)
        id == NewNodeId(ns)
    IN IF e # Nil THEN [err |-> "ok", e |-> e, ns |-> ns]
       ELSE [err |-> "ok", e |-> id,
             ns |-> [ns EXCEPT ![id] = newFile(perm),
                               ![parent].children = MapPut(@, name, id)]]

\* the child to open: the existing one, or a new file when O_CREATE is given
\* and the parent is writable
OpenFileChild(ns, parent, name, flag, perm) ==
    LET e == Child(ns, parent, name) IN
    IF e # Nil THEN [err |-> "ok", e |-> e, ns |-> ns]
    ELSE IF ~HasFlag(flag, O_CREATE) THEN [err |-> "ErrNotExist", e |-> Nil, ns |-> ns]
    ELSE IF ~OwnerWrite(ns[parent].perm) THEN [err |-> "ErrPermission", e |-> Nil, ns |-> ns]
    ELSE LET id == NewNodeId(ns) IN
         [err |-> "ok", e |-> id,
          ns |-> [ns EXCEPT ![id] = newFile(perm),
                            ![parent].children = MapPut(@, name, id)]]

\* under the parent's write lock: look the child up or create it
OpenFileLocked(t) ==
    LET r == th[t]
        name == split(r.path).fileName
        c == OpenFileChild(nodes, r.old, name, r.flag, r.perm)
    IN
    /\ r.pc = "of_locked"
    /\ (Child(nodes, r.old, name) = Nil => HasFreeNode(nodes))
    /\ IF c.err # "ok"
       THEN Return(t, Err("OpenFile", c.err, r.path), nodes, arrays, locks, hd)
       ELSE Goto(t, [r EXCEPT !.found = c.e, !.pc = "open_e",
                              !.created = (Child(nodes, r.old, name) = Nil)], c.ns, locks)
    /\ UNCHANGED <<calls, hist>>

\* --------------------------------------------------------------- memfs.Mkdir
MkdirCall(t, name, perm) ==
    Goto(t, StartFind([Locals(t) EXCEPT !.op = "Mkdir", !.path = name, !.perm = perm],
                      split(name).dirName, "mk_parent"), nodes, locks)

StartMkdir(t, name, perm) ==
    /\ Begin(t)
    /\ MkdirCall(t, name, perm)
    /\ Spend(t)

\* the parent was looked up: dir.Lock
MkdirParent(t) ==
    LET r == th[t]
        name == split(r.path).fileName
    IN
    /\ r.pc = "mk_parent"
    /\ IF r.found = Nil
       THEN Return(t, Err("Mkdir", "ErrNotExist", name), nodes, arrays, locks, hd)
       ELSE IF nodes[r.found].kind # "dir"
       THEN Return(t, Err("Mkdir", "ErrInvalid", name), nodes, arrays, locks, hd)
       ELSE Goto(t, [r EXCEPT !.defer = <<[n |-> r.found, m |-> "w"]>>, !.old = r.found,
                              !.lockn = r.found, !.found = Nil,
                              !.pc = "lock", !.cont = "mk_locked"], nodes, locks)
    /\ UNCHANGED <<calls, hist>>

MkdirInsertDefaultPerm(ns, parent, name, perm) ==
    LET id == NewNodeId(ns) IN
    [ns EXCEPT ![id] = newDir(511), ![parent].children = MapPut(@, name, id)]

\* dir.children[name] = newDir(perm)
MkdirInsert(ns, parent, name, perm) ==
    LET id == NewNodeId(ns) IN
    [ns EXCEPT ![id] = newDir(perm), ![parent].children = MapPut(@, name, id)]

MkdirLocked(t) ==
    LET r == th[t] IN
    /\ r.pc = "mk_locked"
    /\ HasFreeNode(nodes)
    /\ Return(t, Ok("Mkdir", r.path, NewNodeId(nodes)),
              MkdirInsert(nodes, r.old, split(r.path).fileName, r.perm), arrays, locks, hd)
    /\ UNCHANGED <<calls, hist>>

\* -------------------------------------------------------------- memfs.Remove
RemoveCall(t, p) ==
    /\ CanRLock(locks, Root)
    /\ Goto(t, StartFind([Locals(t) EXCEPT !.op = "Remove", !.path = p,
                                      !.defer = <<[n |-> Root, m |-> "r"]>>],
                         split(p).dirName, "rm_parent"),
            nodes, DoRLock(locks, Root, t))

StartRemove(t, p) ==
    /\ Begin(t)
    /\ RemoveCall(t, p)
    /\ Spend(t)

\* the parent was looked up: root.RUnlock, then parentDir.Lock
RemoveParent(t) ==
    LET r == th[t] IN
    /\ r.pc = "rm_parent"
    /\ IF r.found = Nil
       THEN Return(t, Err("Remove", "ErrNotExist", r.path), nodes, arrays, locks, hd)
       ELSE IF nodes[r.found].kind # "dir"
       THEN Return(t, Err("Remove", "ErrInvalid", r.path), nodes, arrays, locks, hd)
       ELSE Goto(t, [r EXCEPT !.defer = <<[n |-> r.found, m |-> "w"]>>, !.old = r.found,
                              !.lockn = r.found, !.found = Nil,
                              !.pc = "lock", !.cont = "rm_locked"],
                 nodes, DoRUnlock(locks, Root, t))
    /\ UNCHANGED <<calls, hist>>

RemoveDeleteAll(ns, parent, name) == [ns EXCEPT ![parent].children = EmptyMap]

\* delete(parentDir.children, name)
RemoveDelete(ns, parent, name) ==
    [ns EXCEPT ![parent].children = MapDel(@, name)]

RemoveLocked(t) ==
    LET r == th[t] IN
    /\ r.pc = "rm_locked"
    /\ Return(t, Ok("Remove", r.path, Child(nodes, r.old, split(r.path).fileName)),
              RemoveDelete(nodes, r.old, split(r.path).fileName), arrays, locks, hd)
    /\ UNCHANGED <<calls, hist>>

\* -------------------------------------------------------------- memfs.Rename
StartRename(t, oldpath, newpath) ==
    /\ Begin(t)
    /\ CanRLock(locks, Root)
    /\ Goto(t, StartFind([Locals(t) EXCEPT !.op = "Rename", !.path = oldpath, !.path2 = newpath,
                                      !.defer = <<[n |-> Root, m |-> "r"]>>],
                         split(oldpath).dirName, "rn_old"),
            nodes, DoRLock(locks, Root, t))
    /\ Spend(t)

\* the old parent was looked up: find of the new parent
RenameOld(t) ==
    LET r == th[t] IN
    /\ r.pc = "rn_old"
    /\ IF r.found = Nil
       THEN Return(t, Err("Rename", "ErrNotExist", r.path), nodes, arrays, locks, hd)
       ELSE Goto(t, StartFind([r EXCEPT !.old = r.found, !.found = Nil],
                              split(r.path2).dirName, "rn_new"), nodes, locks)
    /\ UNCHANGED <<calls, hist>>

\* the new parent was looked up: root.RUnlock, then old.Lock
RenameNew(t) ==
    LET r == th[t] IN
    /\ r.pc = "rn_new"
    /\ IF r.found = Nil
       THEN Return(t, Err("Rename", "ErrNotExist", r.path2), nodes, arrays, locks, hd)
       ELSE Goto(t, [r EXCEPT !.defer = <<[n |-> r.old, m |-> "w"]>>, !.newd = r.found,
                              !.lockn = r.old, !.found = Nil,
                              !.pc = "lock", !.cont = "rn_locked"],
                 nodes, DoRUnlock(locks, Root, t))
    /\ UNCHANGED <<calls, hist>>

\* if old != newD { newD.Lock() }
RenameLocksNew(old, newD) == old # newD

\* old is locked: lock the new parent unless it is the same node
RenameLocked(t) ==
    LET r == th[t] IN
    /\ r.pc = "rn_locked"
    /\ IF RenameLocksNew(r.old, r.newd)
       THEN Goto(t, [r EXCEPT !.defer = Append(@, [n |-> r.newd, m |-> "w"]),
                              !.lockn = r.newd, !.pc = "lock", !.cont = "rn_move"],
                 nodes, locks)
       ELSE Goto(t, [r EXCEPT !.pc = "rn_move"], nodes, locks)
    /\ UNCHANGED <<calls, hist>>

RenameCheckAbsentOnly(ns, old, newD, oldname) ==
    IF Child(ns, old, oldname) = Nil THEN "ErrNotExist" ELSE "ok"

\* the checks of Rename under the locks
RenameCheck(ns, old, newD, oldname) ==
    IF ns[old].kind # "dir" THEN "ErrInvalidOld"
    ELSE IF ns[newD].kind # "dir" THEN "ErrInvalidNew"
    ELSE IF Child(ns, old, oldname) = Nil THEN "ErrNotExist"
    ELSE "ok"

\* the checks, then delete(oldDir.children, oldname)
RenameMove(t) ==
    LET r == th[t]
        oldname == split(r.path).fileName
        c == RenameCheck(nodes, r.old, r.newd, oldname)
    IN
    /\ r.pc = "rn_move"
    /\ IF c = "ErrInvalidOld"
       THEN Return(t, Err("Rename", "ErrInvalid", r.path), nodes, arrays, locks, hd)
       ELSE IF c = "ErrInvalidNew"
       THEN Return(t, Err("Rename", "ErrInvalid", r.path2), nodes, arrays, locks, hd)
       ELSE IF c = "ErrNotExist"
       THEN Return(t, Err("Rename", "ErrNotExist", r.path), nodes, arrays, locks, hd)
       ELSE Goto(t, [r EXCEPT !.found = Child(nodes, r.old, oldname), !.pc = "rn_insert"],
                 RemoveDelete(nodes, r.old, oldname), locks)
    /\ UNCHANGED <<calls, hist>>

\* newDir.children[newname] = toRename
RenameInsert(t) ==
    LET r == th[t] IN
    /\ r.pc = "rn_insert"
    /\ Return(t, Ok("Rename", r.path, r.found),
              [nodes EXCEPT ![r.newd].children = MapPut(@, split(r.path2).fileName, r.found)],
              arrays, locks, hd)
    /\ UNCHANGED <<calls, hist>>

\* ---------------------------------------------------------------- memfs.Stat
StartStat(t, path) ==
    /\ Begin(t)
    /\ CanRLock(locks, Root)
    /\ Goto(t, StartFind([Locals(t) EXCEPT !.op = "Stat", !.path = path,
                                      !.defer = <<[n |-> Root, m |-> "r"]>>],
                         path, "st_e"),
            nodes, DoRLock(locks, Root, t))
    /\ Spend(t)

\* the entry was looked up: e.RLock
StatEntry(t) ==
    LET r == th[t] IN
    /\ r.pc = "st_e"
    /\ IF r.found = Nil
       THEN Return(t, Err("Stat", "ErrNotExist", r.path), nodes, arrays, locks, hd)
       ELSE Goto(t, [r EXCEPT !.defer = Append(@, [n |-> r.found, m |-> "r"]),
                              !.lockn = r.found, !.pc = "rlock", !.cont = "st_stat"],
                 nodes, locks)
    /\ UNCHANGED <<calls, hist>>

\* file.stat and dir.stat
statInfo(ns, e) ==
    [size |-> IF ns[e].kind = "file" THEN ns[e].content.n ELSE 0,
     perm |-> ns[e].perm, isdir |-> ns[e].kind = "dir"]

\* e.stat(fsys, path): a symlink resolves its target from the root and stats
\* what it finds
StatNodeStep(t) ==
    LET r == th[t]
        e == r.found
    IN
    /\ r.pc = "st_stat"
    /\ IF e = Nil
       THEN Return(t, Err("stat", "ErrNotExist", NotExistPath(r)), nodes, arrays, locks, hd)
       ELSE IF nodes[e].kind = "symlink"
       THEN Goto(t, StartFind([r EXCEPT !.sym = TRUE, !.via = nodes[e].target, !.found = Nil],
                              nodes[e].target, "st_stat"), nodes, locks)
       ELSE Return(t, [Ok("Stat", r.path, e) EXCEPT !.info = statInfo(nodes, e)],
                   nodes, arrays, locks, hd)

StatNode(t) ==
    /\ StatNodeStep(t)
    /\ UNCHANGED <<calls, hist>>

\* the same, the caller keeping the *fileInfo that Stat returns
StatNodeKept(t) ==
    /\ StatNodeStep(t)
    /\ hist' = IF ret'.op = "Stat" /\ ret'.err = "ok"
               THEN HistStat(hist, ret'.path, ret'.node) ELSE hist
    /\ UNCHANGED calls

\* ------------------------------------------------------------ memfs.SameFile
\* fi1 and fi2 are *fileInfo values of this filesystem
SameFile(fi1, fi2) == fi1.path = fi2.path

\* --------------------------------------------------------------- memfs.Chmod
\* find of the entry, the root not being locked by the caller
ChmodCall(t, name, mode) ==
    Goto(t, StartFind([Locals(t) EXCEPT !.op = "Chmod", !.path = name, !.perm = mode],
                      name, "ch_e"), nodes, locks)

StartChmod(t, name, mode) ==
    /\ Begin(t)
    /\ ChmodCall(t, name, mode)
    /\ Spend(t)

\* the entry was looked up: e.RLock
ChmodEntry(t) ==
    LET r == th[t] IN
    /\ r.pc = "ch_e"
    /\ IF r.found = Nil
       THEN Return(t, Err("Chmod", "ErrNotExist", r.path), nodes, arrays, locks, hd)
       ELSE Goto(t, [r EXCEPT !.defer = Append(@, [n |-> r.found, m |-> "r"]),
                              !.lockn = r.found, !.pc = "rlock", !.cont = "ch_apply"],
                 nodes, locks)
    /\ UNCHANGED <<calls, hist>>

\* file.chmod: the permission bits of the file become mode
fileChmod(ns, e, mode) == [ns EXCEPT ![e].perm = mode]

\* dir.chmod
dirChmod(ns, e, mode) == [ns EXCEPT ![e].perm = mode]

entryChmodDropped(ns, e, mode) == ns

\* e.chmod(fsys, mode) on a file or a directory
entryChmod(ns, e, mode) ==
    IF ns[e].kind = "file" THEN fileChmod(ns, e, mode) ELSE dirChmod(ns, e, mode)

\* e.chmod(fsys, mode): a symlink resolves its target from the root and
\* changes what it finds
ChmodNode(t) ==
    LET r == th[t]
        e == r.found
    IN
    /\ r.pc = "ch_apply"
    /\ IF e = Nil
       THEN Return(t, Err("chmod", "ErrNotExist", NotExistPath(r)), nodes, arrays, locks, hd)
       ELSE IF nodes[e].kind = "symlink"
       THEN Goto(t, StartFind([r EXCEPT !.sym = TRUE, !.via = nodes[e].target, !.found = Nil],
                              nodes[e].target, "ch_apply"), nodes, locks)
       ELSE Return(t, Ok("Chmod", r.path, e),
                   entryChmod(nodes, e, r.perm), arrays, locks, hd)
    /\ UNCHANGED <<calls, hist>>

\* ------------------------------------------------- memfs.Link, memfs.Symlink
StartLink(t, oldname, newname) ==
    /\ Begin(t)
    /\ Goto(t, StartFind([Locals(t) EXCEPT !.op = "Link", !.path = oldname, !.path2 = newname],
                         oldname, "ln_old"), nodes, locks)
    /\ Spend(t)

StartSymlink(t, oldname, newname) ==
    /\ Begin(t)
    /\ Goto(t, StartFind([Locals(t) EXCEPT !.op = "Symlink", !.path = oldname, !.path2 = newname],
                         oldname, "sy_old"), nodes, locks)
    /\ Spend(t)

\* oldname was looked up: find of the directory of newname
LinkOld(t) ==
    LET r == th[t] IN
    /\ r.pc = "ln_old"
    /\ IF r.found = Nil
       THEN Return(t, Err("Link", "ErrNotExist", r.path), nodes, arrays, locks, hd)
       ELSE Goto(t, StartFind([r EXCEPT !.old = r.found, !.found = Nil],
                              split(r.path2).dirName, "ln_dir"), nodes, locks)
    /\ UNCHANGED <<calls, hist>>

SymlinkAnyTarget(found) == FALSE

\* Symlink looks oldname up too, and fails when it does not exist
SymlinkNeedsTarget(found) == found = Nil

SymlinkOld(t) ==
    LET r == th[t] IN
    /\ r.pc = "sy_old"
    /\ IF SymlinkNeedsTarget(r.found)
       THEN Return(t, Err("Symlink", "ErrNotExist", r.path), nodes, arrays, locks, hd)
       ELSE Goto(t, StartFind([r EXCEPT !.found = Nil],
                              split(r.path2).dirName, "sy_dir"), nodes, locks)
    /\ UNCHANGED <<calls, hist>>

\* d.children[linkname] = e, with no lock taken
LinkDir(t) ==
    LET r == th[t]
        s == split(r.path2)
    IN
    /\ r.pc = "ln_dir"
    /\ IF r.found = Nil
       THEN Return(t, Err("Link", "ErrNotExist", s.dirName), nodes, arrays, locks, hd)
       ELSE IF nodes[r.found].kind # "dir"
       THEN Return(t, Err("Link", "ErrInvalid", s.dirName), nodes, arrays, locks, hd)
       ELSE Return(t, Ok("Link", r.path2, r.old),
                   [nodes EXCEPT ![r.found].children = MapPut(@, s.fileName, r.old)],
                   arrays, locks, hd)
    /\ UNCHANGED <<calls, hist>>

\* d.children[linkname] = &symlink{targetPath: oldname}, with no lock taken
SymlinkInsert(ns, d, linkname, oldname) ==
    LET id == NewNodeId(ns) IN
    [ns EXCEPT ![id] = newSymlink(oldname), ![d].children = MapPut(@, linkname, id)]

SymlinkDir(t) ==
    LET r == th[t]
        s == split(r.path2)
    IN
    /\ r.pc = "sy_dir"
    /\ HasFreeNode(nodes)
    /\ IF r.found = Nil
       THEN Return(t, Err("Symlink", "ErrNotExist", s.dirName), nodes, arrays, locks, hd)
       ELSE IF nodes[r.found].kind # "dir"
       THEN Return(t, Err("Symlink", "ErrInvalid", s.dirName), nodes, arrays, locks, hd)
       ELSE Return(t, Ok("Symlink", r.path2, NewNodeId(nodes)),
                   SymlinkInsert(nodes, r.found, s.fileName, r.path), arrays, locks, hd)
    /\ UNCHANGED <<calls, hist>>

\* ----------------------------------------------------------- handle methods
\* may the goroutine call a method of its handle
HasHandle(t) == Begin(t) /\ hd[t].open

\* fileHandle.Read(buf) with len(buf) = n: the bytes copied and the cursor
fileRead(arrs, h, n) ==
    LET l == Min(h.buf.n - h.readCursor, n) IN
    [data |-> SubSeq(SliceBytes(arrs, h.buf), h.readCursor + 1, h.readCursor + l),
     h |-> [h EXCEPT !.readCursor = @ + l]]

HandleRead(t, n) ==
    LET h == hd[t]
        rd == fileRead(arrays, h, n)
    IN
    /\ HasHandle(t)
    /\ IF h.isdir
       THEN Return(t, Err("Read", "ErrIsDirectory", h.path), nodes, arrays, locks, hd)
       ELSE IF ~h.readable
       THEN Return(t, Err("Read", "ErrPermission", h.path), nodes, arrays, locks, hd)
       ELSE IF h.readCursor >= h.buf.n
       THEN Return(t, Err("Read", "EOF", h.path), nodes, arrays, locks, hd)
       ELSE Return(t, Res("Read", "ok", h.path, h.node, rd.data), nodes, arrays, locks,
                   [hd EXCEPT ![t] = rd.h])
    /\ hist' = IF h.isdir \/ ~h.readable THEN hist
               ELSE HistRead(hist, t, rd.data, h.readCursor >= h.buf.n)
    /\ SpendOnHandle(t)

\* append(buf, tail...) stays in the backing array while its capacity lasts
AppendInPlace(buf, tail) == buf.a # Nil /\ buf.n + Len(tail) <= ByteSliceCap

fileWriteTruncating(arrs, h, p, id) ==
    [arrs |-> [arrs EXCEPT ![id] = p],
     h |-> [h EXCEPT !.buf = [a |-> id, n |-> Len(p)], !.writeCursor = Len(p)]]

\* fileHandle.Write(p): overwrite in place from the write cursor, append what
\* reaches past the end; id is the backing array a growing append allocates
fileWrite(arrs, h, p, id) ==
    LET overwrite == Min(Len(p), h.buf.n - h.writeCursor)
        arrs1 == IF overwrite > 0
                 THEN [arrs EXCEPT ![h.buf.a] = ArrWrite(@, h.writeCursor, SubSeq(p, 1, overwrite))]
                 ELSE arrs
        tail == SubSeq(p, overwrite + 1, Len(p))
        a2 == IF AppendInPlace(h.buf, tail) THEN h.buf.a ELSE id
        arrs2 == IF AppendInPlace(h.buf, tail)
                 THEN [arrs1 EXCEPT ![a2] = ArrWrite(@, h.buf.n, tail)]
                 ELSE [arrs1 EXCEPT ![a2] = SliceBytes(arrs1, h.buf) \o tail]
    IN
    IF overwrite < Len(p)
    THEN [arrs |-> arrs2,
          h |-> [h EXCEPT !.buf = [a |-> a2, n |-> h.buf.n + Len(tail)],
                          !.writeCursor = h.buf.n + Len(tail)]]
    ELSE [arrs |-> arrs1, h |-> [h EXCEPT !.writeCursor = @ + overwrite]]

\* f.buf[f.writeCursor:] panics when the cursor lies beyond the length of the
\* buffer; the panic is the result of the call here, the program going on
WriteCall(t, p) ==
    LET h == hd[t]
        w == fileWrite(arrays, h, p, NewArrayId(nodes, th, hd))
        done == h.isdir \/ ~h.writable \/ h.writeCursor > h.buf.n
    IN
    /\ IF h.isdir
       THEN Return(t, Err("Write", "ErrIsDirectory", h.path), nodes, arrays, locks, hd)
       ELSE IF ~h.writable
       THEN Return(t, Err("Write", "ErrPermission", h.path), nodes, arrays, locks, hd)
       ELSE IF h.writeCursor > h.buf.n
       THEN Return(t, Err("Write", "panic", h.path), nodes, arrays, locks, hd)
       ELSE /\ h.writeCursor + Len(p) <= MaxLen
            /\ HasFreeArray(nodes, th, hd)
            /\ Return(t, Res("Write", "ok", h.path, h.node, p), nodes, w.arrs, locks,
                      [hd EXCEPT ![t] = w.h])
    /\ hist' = IF done THEN hist ELSE HistWrite(hist, t, p)

HandleWrite(t, p) ==
    /\ HasHandle(t)
    /\ WriteCall(t, p)
    /\ SpendOnHandle(t)

closeContentKept(ns, h) == ns

\* fileHandle.Close: a writable handle stores its buffer as the node's content
closeContent(ns, h) ==
    IF h.writable /\ ~h.isdir THEN [ns EXCEPT ![h.node].content = h.buf] ELSE ns

closeUnlockWriterOnly(L, h, t) ==
    IF h.writable THEN DoUnlock(L, h.node) ELSE L

\* Close releases the lock the open has taken
closeUnlock(L, h, t) ==
    IF h.writable THEN DoUnlock(L, h.node) ELSE DoRUnlock(L, h.node, t)

CloseCall(t) ==
    LET h == hd[t] IN
    /\ Return(t, Ok("Close", h.path, h.node), closeContent(nodes, h), arrays,
              closeUnlock(locks, h, t), [hd EXCEPT ![t] = NoHandle])
    /\ hist' = HistClose(hist, t)

HandleClose(t) ==
    /\ HasHandle(t)
    /\ CloseCall(t)
    /\ SpendOnHandle(t)

\* --------------------------------------------------------- dirHandle.ReadDir
\* the byte of a character of a name
Byte(c) ==
    CASE c = "/" -> 47 [] c = "1" -> 49 [] c = "2" -> 50 [] c = "B" -> 66
      [] c = "a" -> 97 [] c = "b" -> 98 [] c = "d" -> 100 [] c = "f" -> 102
      [] c = "l" -> 108 [] c = "s" -> 115 [] c = "x" -> 120 [] c = "y" -> 121
      [] c = "z" -> 122

\* dirEntries.Less: strings.Compare(a, b) < 0
RECURSIVE Less(_, _)
Less(a, b) ==
    IF Len(b) = 0 THEN FALSE
    ELSE IF Len(a) = 0 THEN TRUE
    ELSE IF Byte(a[1]) # Byte(b[1]) THEN Byte(a[1]) < Byte(b[1])
    ELSE Less(Tail(a), Tail(b))

\* sort.Sort(entries), on the names (the keys of a map: no two are equal)
RECURSIVE sortNames(_)
sortNames(S) ==
    IF S = {} THEN <<>>
    ELSE LET m == CHOOSE x \in S : \A y \in S \ {x} : Less(x, y) IN
         <<m>> \o sortNames(S \ {m})

\* the directories a find of name from d read-locks
RECURSIVE FindLocks(_, _, _)
FindLocks(ns, d, name) ==
    IF Len(name) = 0 THEN {}
    ELSE LET s == lsplit(name)
             c == Child(ns, d, s.dir)
         IN {d} \cup (IF Len(s.dir) = 0 \/ c = Nil THEN {}
                      ELSE IF ns[c].kind # "dir" THEN {}
                      ELSE FindLocks(ns, c, s.remainder))

\* e.stat(fsys, path) of a child e: a symlink stats what its target path
\* leads to from the root; locks are the directories read-locked on the way,
\* and a chain of links longer than fuel is a recursion that does not end
RECURSIVE entryStat(_, _, _)
entryStat(ns, e, fuel) ==
    IF ns[e].kind # "symlink"
    THEN [err |-> "ok", path |-> <<>>, info |-> statInfo(ns, e), locks |-> {}]
    ELSE LET x == Find(ns, Root, ns[e].target)
             ls == FindLocks(ns, Root, ns[e].target)
         IN IF x = Nil
            THEN [err |-> "ErrNotExist", path |-> ns[e].target, info |-> NoInfo, locks |-> ls]
            ELSE IF fuel = 0
            THEN [err |-> "endless", path |-> ns[e].target, info |-> NoInfo, locks |-> ls]
            ELSE [entryStat(ns, x, fuel - 1) EXCEPT !.locks = @ \cup ls]

\* dirHandle.initializeEntries: every child is stat'ed, the entries are
\* sorted by name; failed holds the errors the stats gave
initializeEntries(ns, d) ==
    LET names == DOMAIN ns[d].children
        st(k) == entryStat(ns, ns[d].children[k], MaxNodes)
        sorted == sortNames(names)
    IN [failed |-> {[err |-> st(k).err, path |-> st(k).path] :
                        k \in {j \in names : st(j).err # "ok"}},
        locks |-> UNION {st(k).locks : k \in names},
        entries |-> [i \in 1..Len(sorted) |->
                        [name |-> sorted[i], info |-> st(sorted[i]).info]]]

dirPageFromStart(es, last, n) ==
    [data |-> SubSeq(es, 1, Min(last + n, Len(es)) - last), last |-> Min(last + n, Len(es))]

\* the page ReadDir(n) returns for n > 0 at cursor last, and the cursor after
dirPage(es, last, n) ==
    [data |-> SubSeq(es, last + 1, Min(last + n, Len(es))), last |-> Min(last + n, Len(es))]

\* dirHandle.ReadDir(n) on t's handle. The entries are made by the first
\* call; the stat of a symlink child read-locks directories from the root on,
\* and waits for ever on one that the goroutine's own writable handle has
\* locked; of several children whose stat fails, the loop over the map
\* returns the error of any one
ReadDirCall(t, n) ==
    LET h == hd[t]
        init == initializeEntries(nodes, h.node)
        es == IF h.hasEntries THEN h.entries ELSE init.entries
        hi == [h EXCEPT !.hasEntries = TRUE, !.entries = es]
        pg == dirPage(es, h.lastEntryIndex, n)
    IN
    /\ h.hasEntries \/ \A d \in init.locks : CanRLock(locks, d)
    /\ h.hasEntries \/ \A f \in init.failed : f.err # "endless"
    /\ IF ~h.hasEntries /\ init.failed # {}
       THEN /\ \E f \in init.failed :
                  Return(t, Err("ReadDir", f.err, f.path), nodes, arrays, locks, hd)
            /\ hist' = hist
       ELSE IF h.lastEntryIndex >= Len(es)
       THEN /\ Return(t, Err("ReadDir", "EOF", h.path), nodes, arrays, locks,
                      [hd EXCEPT ![t] = hi])
            /\ hist' = HistReadDir(hist, t, n, <<>>)
       ELSE IF n <= 0
       THEN /\ Return(t, Res("ReadDir", "ok", h.path, h.node, es), nodes, arrays, locks,
                      [hd EXCEPT ![t] = hi])
            /\ hist' = HistReadDir(hist, t, n, es)
       ELSE /\ Return(t, Res("ReadDir", "ok", h.path, h.node, pg.data), nodes, arrays, locks,
                      [hd EXCEPT ![t] = [hi EXCEPT !.lastEntryIndex = pg.last]])
            /\ hist' = HistReadDir(hist, t, n, pg.data)

\* fileHandle.Chmod and dirHandle.Chmod on t's handle
fileHandleChmod(ns, e, mode) == [ns EXCEPT ![e].perm = mode]

ChmodOnHandle(t, mode) ==
    LET h == hd[t] IN
    /\ IF ~h.writable
       THEN Return(t, Err("File.Chmod", "ErrPermission", h.path), nodes, arrays, locks, hd)
       ELSE Return(t, Ok("File.Chmod", h.path, h.node),
                   IF h.isdir THEN dirChmod(nodes, h.node, mode)
                   ELSE fileHandleChmod(nodes, h.node, mode),
                   arrays, locks, hd)
    /\ hist' = hist

\* fileHandle.Stat and dirHandle.Stat on t's handle
StatOnHandle(t) ==
    LET h == hd[t] IN
    /\ Return(t, [Ok("File.Stat", h.path, h.node) EXCEPT !.info = statInfo(nodes, h.node)],
              nodes, arrays, locks, hd)
    /\ hist' = hist

HandleReadDir(t, n) ==
    /\ HasHandle(t)
    /\ hd[t].isdir
    /\ ReadDirCall(t, n)
    /\ SpendOnHandle(t)

HandleChmod(t, mode) ==
    /\ HasHandle(t)
    /\ ChmodOnHandle(t, mode)
    /\ SpendOnHandle(t)

\* ------------------------------------------------------------ fileHandle.Seek
SeekWhenceRelativeOrigin == 0
SeekWhenceRelativeCurrentOffset == 1
SeekWhenceRelativeEnd == 2

Max(a, b) == IF a > b THEN a ELSE b

\* the offset Seek(offset, whence) moves to: the offset from the origin and
\* the offset from the current one are clamped to [0, length], the offset
\* from the end is length - offset, clamped to 0 from below
seekOffset(length, cursor, offset, whence) ==
    CASE whence = SeekWhenceRelativeOrigin -> Max(0, Min(offset, length))
      [] whence = SeekWhenceRelativeCurrentOffset -> Max(0, Min(cursor + offset, length))
      [] whence = SeekWhenceRelativeEnd -> Max(length - offset, 0)

\* Seek(offset, whence) on t's handle sets the offset of the next Read and
\* the next Write. The handle keeps a cursor for Read and one for Write:
\* from is the one that the current offset is taken from, either of them.
\* A directory handle fails (dirHandle.Seek). The result holds the arguments
\* of the call as data and the new offset.
SeekCall(t, offset, whence, from) ==
    LET h == hd[t]
        o == seekOffset(h.buf.n, from, offset, whence)
        known == whence \in {SeekWhenceRelativeOrigin, SeekWhenceRelativeCurrentOffset,
                             SeekWhenceRelativeEnd}
    IN
    /\ IF h.isdir
       THEN Return(t, Err("Seek", "ErrIsDirectory", h.path), nodes, arrays, locks, hd)
       ELSE IF ~known
       THEN Return(t, Err("Seek", "ErrInvalidWhence", h.path), nodes, arrays, locks, hd)
       ELSE Return(t, [Res("Seek", "ok", h.path, h.node, <<offset, whence>>) EXCEPT !.offset = o],
                   nodes, arrays, locks,
                   [hd EXCEPT ![t] = [h EXCEPT !.readCursor = o, !.writeCursor = o]])
    /\ hist' = IF h.isdir \/ ~known THEN hist ELSE HistSeek(hist, t, o)

HandleSeek(t, offset, whence) ==
    /\ HasHandle(t)
    /\ \E from \in {hd[t].readCursor, hd[t].writeCursor} : SeekCall(t, offset, whence, from)
    /\ SpendOnHandle(t)

\* ---------------------------------------------------------------- package fsx
\* The helpers WriteFile, Chmod, RemoveAll and MkdirAll. fsys is a *memfs,
\* which has Chmod and RemoveAll of its own and neither WriteFile nor
\* MkdirAll, or (wrapped) a value that shows the methods of FS only, as
\* plainFS does: the helpers then take their fallback. A helper is a sequence
\* of calls: Calls makes the call the helper has come to, GoesOn looks at
\* what the call returned and goes on to the next call or returns.
O_TRUNC == 512

\* path.Join(name, elem)
Join(name, elem) == IF Len(name) = 0 THEN elem ELSE name \o <<Separator>> \o elem

\* t calls the helper, g its locals
GenBegin(t, g) ==
    /\ Commit(nodes, arrays, locks, [th EXCEPT ![t].gen = g], hd)
    /\ ret' = NoRes
    /\ hist' = [hist EXCEPT !.before = nodes, !.helped[t] = NoHelp]
    /\ SpendOnHandle(t)

\* the helper op of t is to make the call it has come to
AtCall(t, op) == th[t].pc = "idle" /\ th[t].gen.op = op /\ th[t].gen.res = NoRes
\* the call the helper op of t made has returned
AtResult(t, op) == th[t].pc = "idle" /\ th[t].gen.op = op /\ th[t].gen.res # NoRes

\* the helper goes on, with the locals g, to the call pc
GenGoto(t, g, pc) ==
    /\ Commit(nodes, arrays, locks, [th EXCEPT ![t].gen = [g EXCEPT !.pc = pc, !.res = NoRes]],
              hd)
    /\ ret' = NoRes
    /\ UNCHANGED <<calls, hist>>

\* the helper returns err (nil: "ok")
GenReturn(t, err) ==
    /\ Commit(nodes, arrays, locks, [th EXCEPT ![t].gen = NoGen], hd)
    /\ ret' = [Res(th[t].gen.op, err, th[t].gen.arg, Nil, <<>>) EXCEPT !.t = t]
    /\ hist' = [hist EXCEPT !.before = <<>>, !.helped[t] = [op |-> th[t].gen.op, err |-> err, arg |-> th[t].gen.arg]]
    /\ UNCHANGED calls

\* ---- fsx.WriteFile: OpenFile(O_WRONLY|O_CREATE|O_TRUNC), Write, Close
StartWriteFile(t, name, data, perm) ==
    /\ Begin(t)
    /\ ~hd[t].open
    /\ GenBegin(t, [NoGen EXCEPT !.op = "fsx.WriteFile", !.pc = "open", !.arg = name,
                                 !.name = name, !.data = data, !.perm = perm])

WriteFileCalls(t) ==
    LET g == th[t].gen IN
    /\ AtCall(t, "fsx.WriteFile")
    /\ CASE g.pc = "open" ->
                OpenFileCall(t, g.name, O_WRONLY + O_CREATE + O_TRUNC, g.perm)
                /\ UNCHANGED hist
         [] g.pc = "write" -> WriteCall(t, g.data)
         [] g.pc = "close" -> CloseCall(t)
    /\ UNCHANGED calls

WriteFileGoesOn(t) ==
    LET g == th[t].gen IN
    /\ AtResult(t, "fsx.WriteFile")
    /\ CASE g.pc = "open" ->
                IF g.res.err # "ok" THEN GenReturn(t, g.res.err) ELSE GenGoto(t, g, "write")
         [] g.pc = "write" -> GenGoto(t, [g EXCEPT !.err = g.res.err], "close")
         [] g.pc = "close" -> GenReturn(t, IF g.err # "ok" THEN g.err ELSE g.res.err)

\* ---- fsx.Chmod: fsys.Chmod, or OpenFile(O_RDWR), Chmod on the handle, Close
StartFsxChmod(t, name, mode, wrapped) ==
    /\ Begin(t)
    /\ ~hd[t].open
    /\ GenBegin(t, [NoGen EXCEPT !.op = "fsx.Chmod", !.pc = IF wrapped THEN "open" ELSE "own",
                                 !.arg = name, !.name = name, !.perm = mode])

FsxChmodCalls(t) ==
    LET g == th[t].gen IN
    /\ AtCall(t, "fsx.Chmod")
    /\ CASE g.pc = "own" -> ChmodCall(t, g.name, g.perm) /\ UNCHANGED hist
         [] g.pc = "open" -> OpenFileCall(t, g.name, O_RDWR, 0) /\ UNCHANGED hist
         [] g.pc = "chmod" -> ChmodOnHandle(t, g.perm)
         [] g.pc = "close" -> CloseCall(t)
    /\ UNCHANGED calls

FsxChmodGoesOn(t) ==
    LET g == th[t].gen IN
    /\ AtResult(t, "fsx.Chmod")
    /\ CASE g.pc = "own" -> GenReturn(t, g.res.err)
         [] g.pc = "open" ->
                IF g.res.err # "ok" THEN GenReturn(t, g.res.err) ELSE GenGoto(t, g, "chmod")
         [] g.pc = "chmod" ->
                IF g.res.err # "ok" THEN GenReturn(t, g.res.err) ELSE GenGoto(t, g, "close")
         [] g.pc = "close" -> GenReturn(t, g.res.err)

\* ---- fsx.RemoveAll: fsys.RemoveAll, or fs.ReadDir and Remove, recursively
\* stack holds one frame [name, entries, i] for every RemoveAll that is
\* running, i the entry its loop has come to. fs.ReadDir(fsys, name) is Open,
\* ReadDir(-1) on the file if it has that method, and Close: "rd_open",
\* "rd_list", "rd_close", name the directory it lists and probe telling that
\* it lists an entry of the running loop to see whether the entry has children
StartFsxRemoveAll(t, name, wrapped) ==
    /\ Begin(t)
    /\ ~hd[t].open
    /\ GenBegin(t, [NoGen EXCEPT !.op = "fsx.RemoveAll", !.pc = IF wrapped THEN "rd_open" ELSE "own",
                                 !.arg = name, !.name = name])

FsxRemoveAllCalls(t) ==
    LET g == th[t].gen IN
    /\ AtCall(t, "fsx.RemoveAll")
    /\ CASE g.pc = "own" -> RemoveCall(t, g.name) /\ UNCHANGED hist
         [] g.pc = "rd_open" -> OpenCall(t, g.name) /\ UNCHANGED hist
         [] g.pc = "rd_list" -> ReadDirCall(t, -1)
         [] g.pc = "rd_close" -> CloseCall(t)
         [] g.pc = "remove" -> RemoveCall(t, g.name) /\ UNCHANGED hist
         [] g.pc = "remove_self" -> RemoveCall(t, g.name) /\ UNCHANGED hist
    /\ UNCHANGED calls

\* the loop over the entries of the innermost RemoveAll comes to its entry i:
\* a directory is listed, anything else is removed; after the last entry the
\* directory itself is removed
removeAllLoop(g) ==
    LET f == g.stack[Len(g.stack)] IN
    IF f.i > Len(f.entries)
    THEN [g EXCEPT !.pc = "remove_self", !.name = f.name]
    ELSE LET e == f.entries[f.i]
             n == Join(f.name, e.name)
         IN IF e.info.isdir
            THEN [g EXCEPT !.pc = "rd_open", !.name = n, !.probe = TRUE]
            ELSE [g EXCEPT !.pc = "remove", !.name = n]

\* the loop goes to its next entry
removeAllContinue(g) ==
    removeAllLoop([g EXCEPT !.stack[Len(g.stack)].i = @ + 1])

FsxRemoveAllGoesOn(t) ==
    LET g == th[t].gen
        enter == [g EXCEPT !.stack = Append(@, [name |-> g.name, entries |-> g.list, i |-> 1]),
                           !.list = <<>>]
        down == [g EXCEPT !.probe = FALSE, !.list = <<>>]
        up == [g EXCEPT !.stack = SubSeq(@, 1, Len(@) - 1)]
    IN
    /\ AtResult(t, "fsx.RemoveAll")
    /\ CASE g.pc = "own" -> GenReturn(t, g.res.err)
         [] g.pc = "rd_open" ->
                IF g.res.err # "ok" THEN GenReturn(t, g.res.err)
                ELSE IF hd[t].isdir THEN GenGoto(t, g, "rd_list")
                ELSE GenGoto(t, [g EXCEPT !.err = "not implemented"], "rd_close")
         [] g.pc = "rd_list" ->
                GenGoto(t, [g EXCEPT !.err = g.res.err,
                                     !.list = IF g.res.err = "ok" THEN g.res.data ELSE <<>>],
                        "rd_close")
         [] g.pc = "rd_close" ->
                IF g.err # "ok" THEN GenReturn(t, g.err)
                ELSE IF ~g.probe THEN GenGoto(t, removeAllLoop(enter), removeAllLoop(enter).pc)
                ELSE IF Len(g.list) > 0 THEN GenGoto(t, down, "rd_open")
                ELSE GenGoto(t, [g EXCEPT !.probe = FALSE], "remove")
         [] g.pc = "remove" ->
                IF g.res.err # "ok" THEN GenReturn(t, g.res.err)
                ELSE GenGoto(t, removeAllContinue(g), removeAllContinue(g).pc)
         [] g.pc = "remove_self" ->
                IF g.res.err # "ok" \/ Len(g.stack) = 1 THEN GenReturn(t, g.res.err)
                ELSE GenGoto(t, removeAllContinue(up), removeAllContinue(up).pc)

\* ---- fsx.MkdirAll: Open, then Stat and Close, or MkdirAll(parent) and Mkdir
\* stack holds the paths of the MkdirAll calls that wait for the MkdirAll of
\* their parent
StartFsxMkdirAll(t, path, perm) ==
    /\ Begin(t)
    /\ ~hd[t].open
    /\ GenBegin(t, [NoGen EXCEPT !.op = "fsx.MkdirAll", !.pc = "open", !.arg = path,
                                 !.name = path, !.perm = perm])

FsxMkdirAllCalls(t) ==
    LET g == th[t].gen IN
    /\ AtCall(t, "fsx.MkdirAll")
    /\ CASE g.pc = "open" -> OpenCall(t, g.name) /\ UNCHANGED hist
         [] g.pc = "stat" -> StatOnHandle(t)
         [] g.pc = "close" -> CloseCall(t)
         [] g.pc = "mkdir" -> MkdirCall(t, g.name, g.perm) /\ UNCHANGED hist
    /\ UNCHANGED calls

\* a MkdirAll returns nil: the whole helper does, or the MkdirAll that called
\* it goes on to its Mkdir
mkdirAllDone(t, g) ==
    IF Len(g.stack) = 0 THEN GenReturn(t, "ok")
    ELSE GenGoto(t, [g EXCEPT !.name = g.stack[Len(g.stack)],
                              !.stack = SubSeq(@, 1, Len(@) - 1)], "mkdir")

FsxMkdirAllGoesOn(t) ==
    LET g == th[t].gen
        parent == split(g.name).dirName
    IN
    /\ AtResult(t, "fsx.MkdirAll")
    /\ CASE g.pc = "open" ->
                IF g.res.err = "ok" THEN GenGoto(t, g, "stat")
                ELSE IF g.res.err # "ErrNotExist" THEN GenReturn(t, g.res.err)
                ELSE IF Len(parent) > 0
                THEN GenGoto(t, [g EXCEPT !.stack = Append(@, g.name), !.name = parent], "open")
                ELSE GenGoto(t, g, "mkdir")
         [] g.pc = "stat" -> GenGoto(t, [g EXCEPT !.isdir = g.res.info.isdir], "close")
         [] g.pc = "close" ->
                IF g.res.err # "ok" THEN GenReturn(t, g.res.err)
                ELSE IF g.isdir THEN mkdirAllDone(t, g)
                ELSE GenReturn(t, "ErrInvalid")
         [] g.pc = "mkdir" ->
                IF g.res.err # "ok" THEN GenReturn(t, g.res.err) ELSE mkdirAllDone(t, g)

\* ------------------------------------------------------------ initial states
\* memfs.New(): an empty root directory with permission 0777
EmptyTree == [n \in NodeIds |-> IF n = Root THEN newDir(511) ELSE FreeNode]
EmptyArrays == [a \in ArrIds |-> <<>>]

\* the filesystem after Mkdir("a", 0777), Mkdir("b", 0777),
\* OpenFile("a/x", O_WRONLY|O_CREATE, 0644) + Write([1 2]) + Close,
\* OpenFile("b/y", O_WRONLY|O_CREATE, 0644) + Close and Symlink("a/x", "l")
PopulatedTree ==
    [n \in NodeIds |->
        CASE n = 1 -> [newDir(511) EXCEPT !.children =
                            MapPut(MapPut(MapPut(EmptyMap, <<"a">>, 2), <<"b">>, 3), <<"l">>, 6)]
          [] n = 2 -> [newDir(511) EXCEPT !.children = MapPut(EmptyMap, <<"x">>, 4)]
          [] n = 3 -> [newDir(511) EXCEPT !.children = MapPut(EmptyMap, <<"y">>, 5)]
          [] n = 4 -> [newFile(420) EXCEPT !.content = [a |-> 1, n |-> 2]]
          [] n = 5 -> newFile(420)
          [] n = 6 -> newSymlink(<<"a", "/", "x">>)
          [] OTHER -> FreeNode]
PopulatedArrays == [a \in ArrIds |-> IF a = 1 THEN <<1, 2>> ELSE <<>>]

\* a tree to list: the root holds the directories d1 (empty) and d2 and the
\* files f1, f2 and B; d2 holds the symlink s to "d2/z", which does not exist
ListedTree ==
    [n \in NodeIds |->
        CASE n = 1 -> [newDir(511) EXCEPT !.children =
                            MapPut(MapPut(MapPut(MapPut(MapPut(EmptyMap,
                                <<"f", "2">>, 5), <<"d", "1">>, 2), <<"f", "1">>, 4),
                                <<"d", "2">>, 3), <<"B">>, 6)]
          [] n = 2 -> newDir(511)
          [] n = 3 -> [newDir(511) EXCEPT !.children = MapPut(EmptyMap, <<"s">>, 7)]
          [] n = 4 -> newFile(420)
          [] n = 5 -> [newFile(420) EXCEPT !.content = [a |-> 1, n |-> 2]]
          [] n = 6 -> newFile(420)
          [] n = 7 -> newSymlink(<<"d", "2", "/", "z">>)
          [] OTHER -> FreeNode]

InitWith(ns, arrs, budget) ==
    /\ nodes = ns
    /\ arrays = arrs
    /\ locks = [n \in NodeIds |-> FreeLock]
    /\ th = [t \in Threads |-> Idle]
    /\ hd = [t \in Threads |-> NoHandle]
    /\ calls = budget
    /\ ret = NoRes
    /\ hist = NoHist

\* one goroutine makes MaxCalls calls
Init ==
    \/ InitWith(EmptyTree, EmptyArrays, [t \in Threads |-> IF t = 1 THEN MaxCalls ELSE 0])
    \/ InitWith(PopulatedTree, PopulatedArrays, [t \in Threads |-> IF t = 1 THEN MaxCalls ELSE 0])

\* -------------------------------------------------------------------- inputs
pA == <<"a">>
pB == <<"b">>
pL == <<"l">>
pAX == <<"a", "/", "x">>
pAY == <<"a", "/", "y">>
pBX == <<"b", "/", "x">>
pBY == <<"b", "/", "y">>

Paths == {pA, pB, pL, pAX, pAY, pBX, pBY}
\* (old, new) of Rename, Link and Symlink
Pairs == {<<pAX, pAY>>, <<pAX, pBX>>, <<pAX, pBY>>, <<pAX, pAX>>, <<pAX, pB>>,
          <<pA, pBX>>, <<pA, pAY>>, <<pA, pL>>, <<pAY, pBX>>, <<pAY, pL>>, <<pL, pBX>>}
Flags == {O_RDONLY, O_WRONLY, O_RDWR + O_CREATE, O_WRONLY + O_CREATE + O_EXCL}
FilePerms == {420}
DirPerms == {511}

\* ---------------------------------------------------------------- next state
\* the steps inside a call
Internal(t) ==
    \/ FindStep(t) \/ LockStep(t) \/ RLockStep(t)
    \/ OpenEntry(t) \/ OpenRet(t)
    \/ OpenFileParent(t) \/ OpenFileLocked(t)
    \/ MkdirParent(t) \/ MkdirLocked(t)
    \/ RemoveParent(t) \/ RemoveLocked(t)
    \/ RenameOld(t) \/ RenameNew(t) \/ RenameLocked(t) \/ RenameMove(t) \/ RenameInsert(t)
    \/ StatEntry(t) \/ StatNode(t)
    \/ LinkOld(t) \/ LinkDir(t) \/ SymlinkOld(t) \/ SymlinkDir(t)

\* one goroutine calls the whole facade
Next ==
    \E t \in Threads :
        \/ Internal(t)
        \/ \E p \in Paths : StartOpen(t, p)
        \/ \E p \in Paths, f \in Flags, m \in FilePerms : StartOpenFile(t, p, f, m)
        \/ \E p \in Paths, m \in DirPerms : StartMkdir(t, p, m)
        \/ \E p \in Paths : StartRemove(t, p)
        \/ \E pq \in Pairs : StartRename(t, pq[1], pq[2])
        \/ \E pq \in Pairs : StartLink(t, pq[1], pq[2])
        \/ \E pq \in Pairs : StartSymlink(t, pq[1], pq[2])
        \/ \E p \in Paths : StartStat(t, p)
        \/ HandleClose(t)

Spec == Init /\ [][Next]_vars

\* two goroutines call the facade at the same time
InitConc == InitWith(PopulatedTree, PopulatedArrays, [t \in Threads |-> MaxCalls])

ConcOpenPaths == {pAX, pBX}
ConcFlags == {O_RDONLY, O_WRONLY}
ConcPairs == {<<pAX, pBX>>, <<pBY, pAY>>, <<pAX, pAY>>}
ConcStatPaths == {pAX}

NextConc ==
    \E t \in Threads :
        \/ FindStep(t) \/ LockStep(t) \/ LockPass(t) \/ RLockStep(t)
        \/ OpenEntry(t) \/ OpenRet(t)
        \/ OpenFileParent(t) \/ OpenFileLocked(t)
        \/ RenameOld(t) \/ RenameNew(t) \/ RenameLocked(t) \/ RenameMove(t) \/ RenameInsert(t)
        \/ StatEntry(t) \/ StatNode(t)
        \/ StartOpen(t, pL)
        \/ \E p \in ConcOpenPaths, f \in ConcFlags : StartOpenFile(t, p, f, 420)
        \/ \E pq \in ConcPairs : StartRename(t, pq[1], pq[2])
        \/ \E p \in ConcStatPaths : StartStat(t, p)
        \/ HandleClose(t)

SpecConc == InitConc /\ [][NextConc]_vars

\* one goroutine opens files, writes, reads and closes
MaxIOCalls == 6     \* calls the goroutine makes

InitIO == InitWith(PopulatedTree, PopulatedArrays, [t \in Threads |-> IF t = 1 THEN MaxIOCalls ELSE 0])

IOPaths == {pAX, pAY}
IOFlags == {O_RDONLY, O_WRONLY + O_CREATE, O_WRONLY + O_CREATE + O_APPEND}
Datas == {<<3>>, <<4, 5, 6>>}

\* the steps of OpenFile
OpenFileSteps(t) ==
    \/ FindStep(t) \/ LockStep(t) \/ RLockStep(t)
    \/ OpenFileParent(t) \/ OpenFileLocked(t)
    \/ OpenEntry(t) \/ OpenRet(t)

NextIO ==
    \E t \in Threads :
        \/ OpenFileSteps(t)
        \/ \E p \in IOPaths, f \in IOFlags : StartOpenFile(t, p, f, 420)
        \/ \E d \in Datas : HandleWrite(t, d)
        \/ HandleRead(t, MaxLen)
        \/ HandleClose(t)

SpecIO == InitIO /\ [][NextIO]_vars

\* two goroutines write the same files at the same time
MaxWriterCalls == 3     \* calls each of them makes

InitWriters == InitWith(PopulatedTree, PopulatedArrays, [t \in Threads |-> MaxWriterCalls])

WriterFlags == {O_WRONLY + O_CREATE}

NextWriters ==
    \E t \in Threads :
        \/ FindStep(t) \/ LockStep(t)
        \/ OpenFileParent(t) \/ OpenFileLocked(t)
        \/ OpenEntry(t) \/ OpenRet(t)
        \/ \E p \in IOPaths, f \in WriterFlags : StartOpenFile(t, p, f, 420)
        \/ \E d \in Datas : HandleWrite(t, d)
        \/ HandleClose(t)

SpecWriters == InitWriters /\ [][NextWriters]_vars

\* one goroutine works through the symlink "l" while its target "a/x" changes
MaxLinkCalls == 5       \* calls the goroutine makes

InitLink == InitWith(PopulatedTree, PopulatedArrays,
                     [t \in Threads |-> IF t = 1 THEN MaxLinkCalls ELSE 0])

LinkPairs == {<<pBY, pAX>>, <<pAX, pAY>>}
LinkModes == {292}      \* 0444

NextLink ==
    \E t \in Threads :
        \/ OpenFileSteps(t)
        \/ RemoveParent(t) \/ RemoveLocked(t)
        \/ RenameOld(t) \/ RenameNew(t) \/ RenameLocked(t) \/ RenameMove(t) \/ RenameInsert(t)
        \/ StatEntry(t) \/ StatNode(t)
        \/ ChmodEntry(t) \/ ChmodNode(t)
        \/ StartRemove(t, pAX)
        \/ \E pq \in LinkPairs : StartRename(t, pq[1], pq[2])
        \/ StartOpenFile(t, pAX, O_WRONLY, 420)
        \/ StartOpen(t, pL)
        \/ StartStat(t, pL)
        \/ \E m \in LinkModes : StartChmod(t, pL, m)
        \/ HandleWrite(t, <<3>>)
        \/ HandleRead(t, MaxLen)
        \/ HandleClose(t)

SpecLink == InitLink /\ [][NextLink]_vars

\* one goroutine keeps the results of Stat while the names of the files
\* change; no node is made, so that a node keeps its place in the arena for
\* good and two results are of one node exactly when their places are equal
MaxSameCalls == 4       \* calls the goroutine makes

InitSame == InitWith(PopulatedTree, PopulatedArrays,
                     [t \in Threads |-> IF t = 1 THEN MaxSameCalls ELSE 0])

SamePaths == {pAX, pAY, pBY}
SameLinks == {<<pAX, pAY>>, <<pBY, pAX>>}

NextSame ==
    \E t \in Threads :
        \/ FindStep(t) \/ LockStep(t) \/ RLockStep(t)
        \/ StatEntry(t) \/ StatNodeKept(t)
        \/ LinkOld(t) \/ LinkDir(t)
        \/ RemoveParent(t) \/ RemoveLocked(t)
        \/ \E q \in SamePaths : StartStat(t, q)
        \/ \E pq \in SameLinks : StartLink(t, pq[1], pq[2])
        \/ StartRemove(t, pAX)

SpecSame == InitSame /\ [][NextSame]_vars

\* two goroutines: while one holds a handle that writes "a/x", the other reads
\* the node, by Stat of the path, by Stat of the symlink "l" to it and by
\* listing the directory "a"
MaxReadCalls == 2       \* calls each of them makes

InitRead == InitWith(PopulatedTree, PopulatedArrays, [t \in Threads |-> MaxReadCalls])

ReadStatPaths == {pAX, pL}

NextRead ==
    \E t \in Threads :
        \/ OpenFileSteps(t) \/ LockPass(t)
        \/ StatEntry(t) \/ StatNode(t)
        \/ StartOpenFile(t, pAX, O_WRONLY, 420)
        \/ StartOpen(t, pA)
        \/ \E q \in ReadStatPaths : StartStat(t, q)
        \/ HandleReadDir(t, 0)
        \/ HandleClose(t)

SpecRead == InitRead /\ [][NextRead]_vars

\* two goroutines call MkdirAll, the fallback of package fsx, on an empty tree
MaxMkAllCalls == 1      \* calls each of them makes

InitMkAll == InitWith(EmptyTree, EmptyArrays, [t \in Threads |-> MaxMkAllCalls])

MkAllPaths == {pAX, pAY}

NextMkAll ==
    \E t \in Threads :
        \/ FindStep(t) \/ LockStep(t) \/ LockPass(t) \/ RLockStep(t)
        \/ OpenEntry(t) \/ OpenRet(t)
        \/ MkdirParent(t) \/ MkdirLocked(t)
        \/ FsxMkdirAllCalls(t) \/ FsxMkdirAllGoesOn(t)
        \/ \E q \in MkAllPaths, m \in DirPerms : StartFsxMkdirAll(t, q, m)

SpecMkAll == InitMkAll /\ [][NextMkAll]_vars

\* one goroutine lists directories
MaxDirCalls == 5        \* calls the goroutine makes

InitDir ==
    \E tree \in {EmptyTree, PopulatedTree, ListedTree} :
        InitWith(tree, IF tree = EmptyTree THEN EmptyArrays ELSE PopulatedArrays,
                 [t \in Threads |-> IF t = 1 THEN MaxDirCalls ELSE 0])

pRoot == <<>>
pD1 == <<"d", "1">>
pD2 == <<"d", "2">>
DirPaths == {pRoot, pA, pD1, pD2}
PageSizes == {-1, 0, 1, 2, 3}

NextDir ==
    \E t \in Threads :
        \/ OpenFileSteps(t)
        \/ \E p \in DirPaths : StartOpen(t, p)
        \/ \E p \in DirPaths : StartOpenFile(t, p, O_RDWR, 420)
        \/ \E n \in PageSizes : HandleReadDir(t, n)
        \/ HandleClose(t)

SpecDir == InitDir /\ [][NextDir]_vars

\* one goroutine calls the helpers of package fsx
MaxGenCalls == 2        \* calls the goroutine makes

InitGen ==
    \E tree \in {EmptyTree, PopulatedTree, ListedTree} :
        InitWith(tree, IF tree = EmptyTree THEN EmptyArrays ELSE PopulatedArrays,
                 [t \in Threads |-> IF t = 1 THEN MaxGenCalls ELSE 0])

pAYZ == <<"a", "/", "y", "/", "z">>
GenWritePaths == {pAX, pAY, pBY}
GenPerms == {420, 292}          \* 0644, 0444
GenChmodPaths == {pAX, pA, pD1}
GenRemovePaths == {pRoot, pA, pAX, pD1, pD2}
GenMkdirPaths == {pA, pAX, pAYZ, pL, pD1}

NextGen ==
    \E t \in Threads :
        \/ OpenFileSteps(t)
        \/ MkdirParent(t) \/ MkdirLocked(t)
        \/ RemoveParent(t) \/ RemoveLocked(t)
        \/ ChmodEntry(t) \/ ChmodNode(t)
        \/ WriteFileCalls(t) \/ WriteFileGoesOn(t)
        \/ FsxChmodCalls(t) \/ FsxChmodGoesOn(t)
        \/ FsxRemoveAllCalls(t) \/ FsxRemoveAllGoesOn(t)
        \/ FsxMkdirAllCalls(t) \/ FsxMkdirAllGoesOn(t)
        \/ \E p \in GenWritePaths, d \in Datas, m \in GenPerms : StartWriteFile(t, p, d, m)
        \/ \E p \in GenChmodPaths, m \in GenPerms, w \in BOOLEAN : StartFsxChmod(t, p, m, w)
        \/ \E p \in GenRemovePaths, w \in BOOLEAN : StartFsxRemoveAll(t, p, w)
        \/ \E p \in GenMkdirPaths, m \in DirPerms : StartFsxMkdirAll(t, p, m)
        \/ StartRemove(t, pAX)

SpecGen == InitGen /\ [][NextGen]_vars

\* one goroutine makes calls that fail: missing parents, parents that are no
\* directories, absent names, nodes whose permission bits deny the access
MaxErrCalls == 2        \* calls the goroutine makes

InitErr ==
    \/ InitWith(EmptyTree, EmptyArrays, [t \in Threads |-> IF t = 1 THEN MaxErrCalls ELSE 0])
    \/ InitWith(PopulatedTree, PopulatedArrays,
                [t \in Threads |-> IF t = 1 THEN MaxErrCalls ELSE 0])

pAXY == <<"a", "/", "x", "/", "y">>
ErrPerms == {0, 128, 256, 384}          \* 0000, 0200, 0400, 0600
ErrMkdirPaths == {pAY, pAXY}
ErrOpenPaths == {pAY, pAXY, pAYZ}
\* (flag, perm) of OpenFile
ErrOpenModes == {<<O_RDONLY, 0>>, <<O_WRONLY, 0>>, <<O_RDWR, 0>>}
                    \cup {<<O_WRONLY + O_CREATE, m>> : m \in ErrPerms}
ErrPairs == {<<pAX, pAY>>, <<pAY, pAX>>, <<pAXY, pAY>>, <<pAX, pAXY>>, <<pAX, pAYZ>>}

NextErr ==
    \E t \in Threads :
        \/ OpenFileSteps(t)
        \/ MkdirParent(t) \/ MkdirLocked(t)
        \/ RenameOld(t) \/ RenameNew(t) \/ RenameLocked(t) \/ RenameMove(t) \/ RenameInsert(t)
        \/ StartOpen(t, pAY)
        \/ \E p \in ErrOpenPaths, fm \in ErrOpenModes : StartOpenFile(t, p, fm[1], fm[2])
        \/ \E p \in ErrMkdirPaths, m \in ErrPerms : StartMkdir(t, p, m)
        \/ \E pq \in ErrPairs : StartRename(t, pq[1], pq[2])
        \/ HandleClose(t)

SpecErr == InitErr /\ [][NextErr]_vars

\* one goroutine works on handles of the file "a/x"
MaxHandleCalls == 4     \* calls the goroutine makes

InitHandle == InitWith(PopulatedTree, PopulatedArrays,
                       [t \in Threads |-> IF t = 1 THEN MaxHandleCalls ELSE 0])

HandleFlags == {O_RDONLY, O_WRONLY, O_RDWR, O_RDWR + O_APPEND}
ReadSizes == {1, 2}
HandleModes == {256}        \* 0400
SeekOffsets == {-1, 1, 9}
SeekWhences == {SeekWhenceRelativeOrigin, SeekWhenceRelativeCurrentOffset,
                SeekWhenceRelativeEnd, 4}

NextHandle ==
    \E t \in Threads :
        \/ OpenFileSteps(t)
        \/ \E f \in HandleFlags : StartOpenFile(t, pAX, f, 420)
        \/ \E n \in ReadSizes : HandleRead(t, n)
        \/ \E d \in Datas : HandleWrite(t, d)
        \/ \E m \in HandleModes : HandleChmod(t, m)
        \/ \E o \in SeekOffsets, w \in SeekWhences : HandleSeek(t, o, w)
        \/ HandleClose(t)

SpecHandle == InitHandle /\ [][NextHandle]_vars

\* one goroutine resolves paths, with Open and with Stat: the empty path,
\* paths that lead to a node, paths with a segment that is absent, and paths
\* that go on behind a file or a symlink
MaxFindCalls == 2       \* calls the goroutine makes

\* the tree of TestDir_find: a file in a directory in a directory of the root
NestedTree ==
    [n \in NodeIds |->
        CASE n = 1 -> [newDir(511) EXCEPT !.children = MapPut(EmptyMap, <<"a">>, 2)]
          [] n = 2 -> [newDir(511) EXCEPT !.children = MapPut(EmptyMap, <<"y">>, 3)]
          [] n = 3 -> [newDir(511) EXCEPT !.children = MapPut(EmptyMap, <<"z">>, 4)]
          [] n = 4 -> newFile(420)
          [] OTHER -> FreeNode]

InitFind ==
    \E tree \in {PopulatedTree, NestedTree} :
        InitWith(tree, IF tree = NestedTree THEN EmptyArrays ELSE PopulatedArrays,
                 [t \in Threads |-> IF t = 1 THEN MaxFindCalls ELSE 0])

pAYZX == <<"a", "/", "y", "/", "z", "/", "x">>
pLX == <<"l", "/", "x">>
FindPaths == {<<>>, pA, pL, pAX, pAY, pAXY, pAYZ, pAYZX, pLX}

NextFind ==
    \E t \in Threads :
        \/ FindStep(t) \/ RLockStep(t)
        \/ OpenEntry(t) \/ OpenRet(t)
        \/ StatEntry(t) \/ StatNode(t)
        \/ \E q \in FindPaths : StartOpen(t, q)
        \/ \E q \in FindPaths : StartStat(t, q)
        \/ HandleClose(t)

SpecFind == InitFind /\ [][NextFind]_vars

\* ==================================================================== claims
\* a call of goroutine t returns in this step
Returns(t) == th[t].pc # "idle" /\ th'[t].pc = "idle"

\* C1: a file node on which a writable handle is open has no other open
\* handle, reader or writer: an open of the node by another goroutine has not
\* returned.
OneWriterPerNode ==
    \A t \in Threads, u \in Threads :
        (t # u /\ hd[t].open /\ hd[u].open /\ ~hd[t].isdir /\ hd[t].writable)
            => hd[t].node # hd[u].node

\* a writable handle is open and another goroutine's writing OpenFile waits for the node
WriterWaitsForWriter ==
    \E t \in Threads, u \in Threads :
        /\ hd[t].open /\ hd[t].writable /\ ~hd[t].isdir
        /\ th[u].op = "OpenFile" /\ WantsWrite(th[u].flag)
        /\ th[u].pc = "lock" /\ th[u].lockn = hd[t].node /\ th[u].pend.node = hd[t].node

\* C2: two Rename calls that cross never wait for each other: there is no
\* state in which each waits for a directory the other has locked.
CrossingRenamesReturn ==
    ~ \A t \in Threads :
        /\ th[t].op = "Rename" /\ th[t].pc = "lock"
        /\ locks[th[t].lockn].w \in Threads \ {t}
        /\ locks[th[t].lockn].held
        /\ th[locks[th[t].lockn].w].op = "Rename"
        /\ th[locks[th[t].lockn].w].pc = "lock"

\* C3: when a writable handle is closed the content of its node is the
\* content the node had when the open returned with the handle's writes
\* applied to it in order: no byte of an earlier writer is lost.
WritersKeepBytes ==
    [][\A t \in Threads :
        (hd[t].open /\ hd[t].writable /\ ~hd[t].isdir /\ ~hd'[t].open)
            => SliceBytes(arrays', nodes'[hd[t].node].content) = hist.exp[t]]_vars

\* C4 (as stated): what is read to the end of the stream through a fresh
\* read-only handle is exactly what was written through the write-only handle.
RoundTrip == hist.trip.stage = "done" => hist.trip.got = hist.trip.b

\* C4 (amended): the bytes read are the bytes written followed by what the
\* previous content had beyond them (after it, with O_APPEND); so exactly the
\* bytes written when no longer content was there before.
RoundTripOverwrites ==
    LET tr == hist.trip IN
    tr.stage = "done" =>
        /\ tr.got = IF tr.append THEN tr.pre \o tr.b
                    ELSE tr.b \o SubSeq(tr.pre, Len(tr.b) + 1, Len(tr.pre))
        /\ (Len(tr.pre) <= Len(tr.b) /\ (tr.append => tr.pre = <<>>)) => tr.got = tr.b

\* a round trip over a file that had content, which the bytes written cover
RoundTripOverExisting ==
    LET tr == hist.trip IN
    /\ tr.stage = "done" /\ tr.existed /\ ~tr.append
    /\ Len(tr.pre) > 0 /\ Len(tr.pre) <= Len(tr.b) /\ tr.got = tr.b

\* C5: when Rename of a path to another path returns nil, the old path is
\* not found and the new path leads to the node the old path named.
RenameMovesNode ==
    [][\A t \in Threads :
        (/\ th[t].pc = "rn_insert" /\ Returns(t) /\ ret'.err = "ok"
         /\ th[t].path # th[t].path2)
            => /\ Find(nodes', Root, th[t].path) = Nil
               /\ Find(nodes', Root, th[t].path2) = th[t].found]_vars

\* C6: Remove of a directory that has a child fails and leaves it in place.
RemoveKeepsNonEmptyDir ==
    [][\A t \in Threads :
        LET name == split(th[t].path).fileName
            e == Child(nodes, th[t].old, name)
        IN (/\ th[t].pc = "rm_locked" /\ Returns(t)
            /\ e # Nil /\ nodes[e].kind = "dir" /\ DOMAIN nodes[e].children # {})
            => (ret'.err # "ok" /\ Child(nodes', th[t].old, name) = e
                /\ nodes'[e] = nodes[e])]_vars

\* C7: OpenFile with O_CREATE|O_EXCL returns no handle for a name that was
\* there before the call.
ExclusiveCreateFails ==
    [][\A t \in Threads :
        (/\ th[t].op = "OpenFile" /\ th[t].pc = "open_ret"
         /\ HasFlag(th[t].flag, O_CREATE) /\ HasFlag(th[t].flag, O_EXCL)
         /\ ~th[t].created)
            => ~hd'[t].open]_vars

\* C8: a creating operation leaves a name that exists in the parent directory
\* with the node it has.
CreateKeepsExisting ==
    [][\A t \in Threads :
        LET r == th[t]
            parent == IF r.pc \in {"mk_locked", "of_locked"} THEN r.old ELSE r.found
            name == split(IF r.pc \in {"ln_dir", "sy_dir"} THEN r.path2 ELSE r.path).fileName
        IN (/\ r.pc \in {"mk_locked", "of_locked", "ln_dir", "sy_dir"}
            /\ parent # Nil /\ nodes[parent].kind = "dir"
            /\ Child(nodes, parent, name) # Nil)
            => /\ Child(nodes', parent, name) = Child(nodes, parent, name)
               /\ nodes'[Child(nodes, parent, name)] = nodes[Child(nodes, parent, name)]]_vars

\* the directory of the new name of a Link or Symlink call is there
NewParentIsDir(ns, newname) ==
    LET d == Find(ns, Root, split(newname).dirName) IN d # Nil /\ ns[d].kind = "dir"

\* the new name leads to a symlink with the literal target oldname
IsSymlinkTo(ns, newname, oldname) ==
    LET e == Find(ns, Root, newname) IN
    e # Nil /\ ns[e].kind = "symlink" /\ ns[e].target = oldname

NamesDanglingLink(ns, path) ==
    LET e == Find(ns, Root, path) IN
    e # Nil /\ ns[e].kind = "symlink" /\ Find(ns, Root, ns[e].target) = Nil

BytesFrom(c, rc, n) == SubSeq(c, rc + 1, rc + Min(Len(c) - rc, n))

\* C11: a symlink is resolved at every call: a Stat, an Open or a Chmod that
\* went through a link returns what the node standing at the target path at
\* that moment gives (its info, a handle on it, its mode changed), or fails
\* with not-found naming the target path when nothing stands there; a Read
\* on a handle opened through a link returns the bytes that node holds now
LinkActsOnCurrentTarget ==
    [][\A t \in Threads :
        /\ (Returns(t) /\ th[t].sym) =>
              LET e == Find(nodes, Root, th[t].via) IN
              IF e = Nil
              THEN ret'.err = "ErrNotExist" /\ ret'.path = th[t].via /\ nodes' = nodes
              ELSE /\ ret'.err \in {"ok", "ErrPermission"}
                   /\ ret'.err = "ok" =>
                        /\ ret'.node = e
                        /\ th[t].op = "Stat" => ret'.info = statInfo(nodes, e)
                        /\ th[t].op = "Chmod" => nodes'[e].perm = th[t].perm
                        /\ th[t].op = "Open" =>
                              /\ hd'[t].open /\ hd'[t].node = e
                              /\ SliceBytes(arrays', hd'[t].buf)
                                   = SliceBytes(arrays, nodes[e].content)
        /\ (hd[t].open /\ ret'.t = t /\ ret'.op = "Read" /\ ret'.err = "ok"
            /\ Find(nodes, Root, hd[t].path) # Nil
            /\ nodes[Find(nodes, Root, hd[t].path)].kind = "symlink") =>
              ret'.data = BytesFrom(SliceBytes(arrays, nodes[hd[t].node].content),
                                    hd[t].readCursor, MaxLen)
    ]_vars

\* C11 witness: "b/y" was renamed over "a/x", and Stat, Open or Chmod of the
\* link "l" to "a/x" then returned the node that had been "b/y"
LinkFollowedToNewTarget ==
    /\ ret.path = pL /\ ret.err = "ok" /\ ret.op \in {"Stat", "Open", "Chmod"}
    /\ ret.node = 5 /\ Find(nodes, Root, pAX) = 5

\* C12: after Link(old, new) both names are names of one node (so what is
\* written or changed through one is what the other gives), and a Remove of
\* one of two names of a node leaves the other name resolving to that node
\* with its content
LinkedNamesAreOneNode ==
    [][\A t \in Threads :
        /\ (Returns(t) /\ th[t].op = "Link" /\ ret'.err = "ok") =>
              /\ Find(nodes', Root, th[t].path) # Nil
              /\ Find(nodes', Root, th[t].path2) = Find(nodes', Root, th[t].path)
        /\ (Returns(t) /\ th[t].op = "Remove" /\ ret'.err = "ok") =>
              \A q \in Paths :
                  (q # th[t].path /\ Find(nodes, Root, q) # Nil
                   /\ Find(nodes, Root, q) = Find(nodes, Root, th[t].path)) =>
                      /\ Find(nodes', Root, q) = Find(nodes, Root, q)
                      /\ nodes'[Find(nodes, Root, q)] = nodes[Find(nodes, Root, q)]
    ]_vars

\* C20: Remove of a name that is absent from an existing parent directory
\* returns nil and leaves the tree as it is; and a Remove that returned nil
\* leaves the name absent from its parent directory, so that the same Remove
\* made again is that case: the same result and the same tree
RemoveOfAbsentNameIsNoOp ==
    [][\A t \in Threads :
        LET dirName == split(th[t].path).dirName
            name == split(th[t].path).fileName
            parent == Find(nodes, Root, dirName)
            after == Find(nodes', Root, dirName)
        IN (Returns(t) /\ th[t].op = "Remove") =>
            /\ (parent # Nil /\ nodes[parent].kind = "dir" /\ Child(nodes, parent, name) = Nil)
                   => (ret'.err = "ok" /\ nodes' = nodes)
            /\ ret'.err = "ok"
                   => (after # Nil /\ nodes'[after].kind = "dir"
                       /\ Child(nodes', after, name) = Nil)
    ]_vars

\* C20 witness: a Remove returned nil for a name its parent did not hold
RemovedAbsentName ==
    /\ ret.op = "Remove" /\ ret.err = "ok" /\ ret.node = Nil
    /\ Find(nodes, Root, split(ret.path).dirName) # Nil

\* the names of the entries es go up strictly in byte order
Ascending(es) == \A i \in 1..(Len(es) - 1) : Less(es[i].name, es[i + 1].name)

\* es lists the children of the directory d, each once, with what its stat gives
ListsChildrenOf(es, ns, d) ==
    /\ Len(es) = Cardinality(DOMAIN ns[d].children)
    /\ {es[i].name : i \in 1..Len(es)} = DOMAIN ns[d].children
    /\ \A i \in 1..Len(es) :
           es[i].info = entryStat(ns, ns[d].children[es[i].name], MaxNodes).info

\* what ReadDir(-1) returns on a handle just opened on the directory d
FreshReadDirAll(ns, d) == initializeEntries(ns, d).entries

\* C13: what ReadDir returns goes up in byte order of the names, and when
\* calls of ReadDir(n) with n > 0 have reached the end of the directory the
\* pages they returned, one after the other, are the children of the
\* directory in that order: the sequence that one ReadDir(-1) returns on a
\* fresh handle of the directory
PagesMakeTheListing ==
    [][\A t \in Threads :
        (hd[t].open /\ hd[t].isdir /\ ret'.t = t /\ ret'.op = "ReadDir") =>
            /\ ret'.err = "ok" => (Ascending(ret'.data) /\ Ascending(hist'.pages[t]))
            /\ (ret'.err = "EOF" /\ hist'.paged[t]) =>
                   /\ Ascending(hist'.pages[t])
                   /\ ListsChildrenOf(hist'.pages[t], nodes, hd[t].node)
                   /\ hist'.pages[t] = FreshReadDirAll(nodes, hd[t].node)
    ]_vars

\* C13 witness: two pages of three made the listing B, d1, d2, f1, f2
PagedThroughFive ==
    /\ ret.op = "ReadDir" /\ ret.err = "EOF" /\ hist.paged[1]
    /\ Len(hist.pages[1]) = 5
    /\ hist.pages[1][1].name = <<"B">> /\ hist.pages[1][4].name = <<"f", "1">>
    /\ hd[1].lastEntryIndex = 5

\* C14: ReadDir(n) with n <= 0 returns the entries after the handle's
\* cursor, those that earlier calls have not returned, and leaves the cursor
\* at the end, so that a further ReadDir returns no entries
ReadDirAllReturnsTheRest ==
    [][\A t \in Threads :
        (hd[t].open /\ hd[t].isdir /\ ret'.t = t /\ ret'.op = "ReadDir"
         /\ ret'.err = "ok" /\ ~hist'.paged[t]) =>
            /\ ret'.data = SubSeq(hd'[t].entries, hd[t].lastEntryIndex + 1,
                                  Len(hd'[t].entries))
            /\ hd'[t].lastEntryIndex >= Len(hd'[t].entries)
    ]_vars

\* C15: ReadDir(n) with n <= 0 on a handle just opened on a directory whose
\* children can all be stat'ed returns all the entries and a nil error, also
\* when the directory has no children
ReadDirAllOnFreshHandleIsNil ==
    [][\A t \in Threads :
        (hd[t].open /\ hd[t].isdir /\ ~hd[t].hasEntries
         /\ ret'.t = t /\ ret'.op = "ReadDir" /\ ~hist'.paged[t] /\ hist.paged[t]
         /\ initializeEntries(nodes, hd[t].node).failed = {}) =>
            /\ ret'.err = "ok"
            /\ ListsChildrenOf(ret'.data, nodes, hd[t].node)
    ]_vars

\* the helper op of t returns
HelperReturns(t, op) == th[t].gen.op = op /\ ret'.t = t /\ ret'.op = op

\* name leads to a file or a directory in the tree ns
IsFileOrDir(ns, name) ==
    Find(ns, Root, name) # Nil /\ ns[Find(ns, Root, name)].kind \in {"file", "dir"}

\* C16: RemoveAll(fsys, name), name being a file or a directory of any shape,
\* returns nil and leaves nothing at name, when fsys has RemoveAll itself and
\* when the fallback on ReadDir and Remove runs
RemoveAllRemovesSubtree ==
    [][\A t \in Threads :
        (HelperReturns(t, "fsx.RemoveAll") /\ Len(th[t].gen.arg) > 0
         /\ IsFileOrDir(hist.before, th[t].gen.arg)) =>
            /\ ret'.err = "ok"
            /\ Find(nodes', Root, th[t].gen.arg) = Nil
    ]_vars

\* the path p and the paths of the directories above it
RECURSIVE Prefixes(_)
Prefixes(p) == IF Len(p) = 0 THEN {} ELSE {p} \cup Prefixes(split(p).dirName)

\* C17: MkdirAll through the fallback: when it returns nil every prefix of
\* path is a directory; when path was a directory it returns nil and changes
\* nothing; when path or a prefix of it was something else than a directory it
\* returns an error and changes nothing
MkdirAllMakesThePath ==
    [][\A t \in Threads :
        LET path == th[t].gen.arg
            was(p) == Find(hist.before, Root, p)
        IN HelperReturns(t, "fsx.MkdirAll") =>
            /\ ret'.err = "ok" =>
                  \A p \in Prefixes(path) :
                      Find(nodes', Root, p) # Nil /\ nodes'[Find(nodes', Root, p)].kind = "dir"
            /\ (was(path) # Nil /\ hist.before[was(path)].kind = "dir") =>
                  (ret'.err = "ok" /\ nodes' = hist.before)
            /\ (\E p \in Prefixes(path) : was(p) # Nil /\ hist.before[was(p)].kind # "dir") =>
                  (ret'.err # "ok" /\ nodes' = hist.before)
    ]_vars

\* C18: when WriteFile(fsys, name, data, perm) returns nil the content of
\* name is data, whatever was at name before, and a file it has created has
\* the permission perm
WriteFileLeavesData ==
    [][\A t \in Threads :
        LET name == th[t].gen.arg
            e == Find(nodes', Root, name)
        IN (HelperReturns(t, "fsx.WriteFile") /\ ret'.err = "ok") =>
            /\ e # Nil /\ nodes'[e].kind = "file"
            /\ SliceBytes(arrays', nodes'[e].content) = th[t].gen.data
            /\ Find(hist.before, Root, name) = Nil => nodes'[e].perm = th[t].gen.perm
    ]_vars

\* C19: Chmod(fsys, name, mode) on a file or a directory, whatever its
\* permission bits are, returns nil and leaves it with the mode mode and
\* with no lock held on it, when fsys has Chmod itself and when the fallback
\* on OpenFile, Chmod of the handle and Close runs
ChmodSetsTheMode ==
    [][\A t \in Threads :
        LET name == th[t].gen.arg
            e == Find(nodes', Root, name)
        IN (HelperReturns(t, "fsx.Chmod") /\ IsFileOrDir(hist.before, name)) =>
            /\ ret'.err = "ok"
            /\ e = Find(hist.before, Root, name)
            /\ nodes'[e].perm = th[t].gen.perm
            /\ locks'[e] = FreeLock
    ]_vars

\* the tree and the handles are as they were before the step
NothingMade(t) == nodes' = nodes /\ ~hd'[t].open

\* C21: OpenFile fails with not-found when the parent of the path does not
\* exist, with invalid when the parent is no directory, with not-found when
\* the name is absent and O_CREATE is not given, and with permission when the
\* name is absent, O_CREATE is given and the parent lacks owner-write; in each
\* case no node is created and no handle returned.
OpenFileFailsCleanly ==
    [][\A t \in Threads :
        LET r == th[t]
            s == split(r.path)
            parent == Find(nodes, Root, s.dirName)
            absent == Child(nodes, parent, s.fileName) = Nil
            fails(err) == /\ Returns(t) /\ ret'.op = "OpenFile" /\ ret'.err = err
                          /\ NothingMade(t)
        IN (r.op = "OpenFile" /\ th'[t] # r) =>
            /\ (r.pc = "of_parent" /\ parent = Nil) => fails("ErrNotExist")
            /\ (r.pc = "of_parent" /\ parent # Nil /\ nodes[parent].kind # "dir")
                  => fails("ErrInvalid")
            /\ (r.pc = "of_locked" /\ absent /\ ~HasFlag(r.flag, O_CREATE))
                  => fails("ErrNotExist")
            /\ (r.pc = "of_locked" /\ absent /\ HasFlag(r.flag, O_CREATE)
                    /\ ~OwnerWrite(nodes[parent].perm))
                  => fails("ErrPermission")
    ]_vars

\* OpenFile with O_CREATE has failed on a directory that lacks owner-write
CreateDeniedByParent ==
    LET s == split(ret.path)
        parent == Find(nodes, Root, s.dirName)
    IN /\ ret.op = "OpenFile" /\ ret.err = "ErrPermission"
       /\ parent # Nil /\ nodes[parent].kind = "dir" /\ ~OwnerWrite(nodes[parent].perm)
       /\ Child(nodes, parent, s.fileName) = Nil
       /\ ~hd[ret.t].open

\* the locks t holds are those of its open handle
HoldsOnlyHandleLock(L, t) ==
    \A n \in NodeIds :
        (L[n].w = t \/ L[n].r[t] > 0) => (hd[t].open /\ hd[t].node = n /\ L[n].r[t] <= 1)

\* C22: Rename fails with not-found when a parent directory is missing or
\* the old name is absent from its parent, and with invalid when a parent
\* that was found is no directory; a Rename that fails leaves the tree as it
\* was and holds no lock when it has returned.
RenameFailsCleanly ==
    [][\A t \in Threads :
        LET r == th[t]
            old == Find(nodes, Root, split(r.path).dirName)
            newD == Find(nodes, Root, split(r.path2).dirName)
            fails(err) == /\ Returns(t) /\ ret'.op = "Rename" /\ ret'.err = err
                          /\ nodes' = nodes /\ HoldsOnlyHandleLock(locks', t)
        IN (r.op = "Rename" /\ th'[t] # r) =>
            /\ (r.pc = "rn_old" /\ old = Nil) => fails("ErrNotExist")
            /\ (r.pc = "rn_new" /\ newD = Nil) => fails("ErrNotExist")
            /\ (r.pc = "rn_move" /\ (nodes[old].kind # "dir" \/ nodes[newD].kind # "dir"))
                  => fails("ErrInvalid")
            /\ (r.pc = "rn_move" /\ nodes[old].kind = "dir" /\ nodes[newD].kind = "dir"
                    /\ Child(nodes, old, split(r.path).fileName) = Nil)
                  => fails("ErrNotExist")
    ]_vars

\* Rename with a parent path that leads to a file has failed, nothing moved
RenameUnderFileFailed ==
    /\ ret.op = "Rename" /\ ret.err = "ErrInvalid" /\ ret.path = pAXY
    /\ Find(nodes, Root, pAX) # Nil /\ nodes[Find(nodes, Root, pAX)].kind = "file"
    /\ \A n \in NodeIds : locks[n] = FreeLock

\* C23: Mkdir creates no missing ancestor: it fails with not-found when the
\* parent of the path does not exist and with invalid when the parent is no
\* directory, and creates nothing then; otherwise it puts one new empty
\* directory with the given permission under the parent, and changes no
\* other name and no other node.
MkdirMakesOneDirectory ==
    [][\A t \in Threads :
        LET r == th[t]
            s == split(r.path)
            parent == Find(nodes, Root, s.dirName)
            made == Child(nodes', parent, s.fileName)
            fails(err) == /\ Returns(t) /\ ret'.op = "Mkdir" /\ ret'.err = err
                          /\ nodes' = nodes
        IN (r.op = "Mkdir" /\ th'[t] # r) =>
            /\ (r.pc = "mk_parent" /\ parent = Nil) => fails("ErrNotExist")
            /\ (r.pc = "mk_parent" /\ parent # Nil /\ nodes[parent].kind # "dir")
                  => fails("ErrInvalid")
            /\ r.pc = "mk_locked" =>
                  /\ Returns(t) /\ ret'.op = "Mkdir" /\ ret'.err = "ok"
                  /\ made # Nil /\ nodes[made].kind = "free"
                  /\ nodes'[made] = newDir(r.perm)
                  /\ DOMAIN nodes'[parent].children
                        = DOMAIN nodes[parent].children \cup {s.fileName}
                  /\ \A k \in DOMAIN nodes[parent].children \ {s.fileName} :
                        nodes'[parent].children[k] = nodes[parent].children[k]
                  /\ nodes'[parent].perm = nodes[parent].perm
                  /\ \A n \in NodeIds \ {parent, made} :
                        nodes'[n].kind # "free" => nodes'[n] = nodes[n]
    ]_vars

\* Mkdir("a/y") has failed where "a" does not exist, and "a" was not made
MkdirMissingParentFailed ==
    /\ ret.op = "Mkdir" /\ ret.err = "ErrNotExist" /\ ret.path = <<"y">>
    /\ Find(nodes, Root, pA) = Nil

\* the permission bits perm grant the access that flag asks for: owner-read
\* for a read-only open, owner-write for a write-only open, both for read-write
AccessGranted(perm, flag) ==
    IF HasFlag(flag, O_WRONLY) THEN OwnerWrite(perm)
    ELSE IF HasFlag(flag, O_RDWR) THEN OwnerRead(perm) /\ OwnerWrite(perm)
    ELSE OwnerRead(perm)

\* C24: the open of a file or directory node goes on exactly when the node's
\* permission bits grant the access asked for; an open that is denied returns
\* a permission error, makes no handle and takes no lock.
OpenAllowedByAccessBits ==
    [][\A t \in Threads :
        LET r == th[t]
            e == r.found
        IN (r.pc = "open_e" /\ th'[t] # r /\ e # Nil /\ nodes[e].kind \in {"file", "dir"}) =>
            IF AccessGranted(nodes[e].perm, r.flag)
            THEN ~Returns(t) /\ th'[t].pend.node = e
            ELSE /\ Returns(t) /\ ret'.err = "ErrPermission"
                 /\ ~hd'[t].open /\ locks'[e] = locks[e]
    ]_vars

\* goroutine t calls the method op of its open file handle in this step
CallsOnFile(t, op) ==
    /\ hd[t].open /\ ~hd[t].isdir
    /\ calls'[t] < calls[t] /\ ret'.t = t /\ ret'.op = op

\* the content of the node of t's handle and the node's mode stay as they are
NodeUntouched(t) ==
    LET e == hd[t].node IN
    /\ nodes'[e] = nodes[e]
    /\ SliceBytes(arrays', nodes'[e].content) = SliceBytes(arrays, nodes[e].content)

\* C25: the access mode given to the open governs the calls on the file
\* handle: on a read-only handle Write and Chmod fail with a permission error
\* and change neither content nor mode, on a write-only handle Read fails with
\* a permission error, and a read-write handle refuses neither Read nor Write.
AccessModeGoverns ==
    [][\A t \in Threads :
        LET f == hd[t].flag
            rdonly == ~HasFlag(f, O_WRONLY) /\ ~HasFlag(f, O_RDWR)
            wronly == HasFlag(f, O_WRONLY)
            rdwr == ~HasFlag(f, O_WRONLY) /\ HasFlag(f, O_RDWR)
            denied == ret'.err = "ErrPermission"
        IN /\ (rdonly /\ (CallsOnFile(t, "Write") \/ CallsOnFile(t, "File.Chmod")))
                => (denied /\ NodeUntouched(t) /\ hd'[t] = hd[t])
           /\ (wronly /\ CallsOnFile(t, "Read")) => (denied /\ hd'[t] = hd[t])
           /\ (rdwr /\ (CallsOnFile(t, "Read") \/ CallsOnFile(t, "Write"))) => ~denied
           /\ (rdonly /\ CallsOnFile(t, "Read")) => ~denied
           /\ (wronly /\ (CallsOnFile(t, "Write") \/ CallsOnFile(t, "File.Chmod"))) => ~denied
    ]_vars

\* Write was refused on a read-only handle that is still open
WriteRefusedOnReadOnly ==
    /\ ret.op = "Write" /\ ret.err = "ErrPermission"
    /\ hd[ret.t].open /\ hd[ret.t].flag = O_RDONLY /\ ~hd[ret.t].isdir

\* C26: Write does not truncate. On a handle opened without O_APPEND,
\* Write(p) at the write cursor c overwrites the bytes c .. c+len(p)-1 in
\* place and makes the buffer longer only by what of p reaches past its end;
\* on a handle opened with O_APPEND every Write puts p after the end; Write
\* returns all of p as written. After Close the content of the node is the
\* content at the open with these changes.
WriteOverwritesInPlace ==
    [][\A t \in Threads :
        LET h == hd[t]
            c == h.writeCursor
            old == SliceBytes(arrays, h.buf)
            new == SliceBytes(arrays', hd'[t].buf)
        IN /\ (CallsOnFile(t, "Write") /\ ret'.err = "ok") =>
                /\ ret'.data \in Datas
                /\ Len(new) = Max(Len(old), c + Len(ret'.data))
                /\ new = Overwrite(old, c, ret'.data)
                /\ HasFlag(h.flag, O_APPEND) => new = old \o ret'.data
                /\ hd'[t].writeCursor = c + Len(ret'.data)
           /\ (CallsOnFile(t, "Close") /\ h.writable) =>
                /\ SliceBytes(arrays', nodes'[h.node].content) = old
                /\ old = hist.exp[t]
    ]_vars

\* [3] was written over the content [1 2] of "a/x", which is [3 2] after Close
WroteOverLongerContent ==
    /\ ret.op = "Close" /\ ret.path = pAX
    /\ hist.trip.stage = "written" /\ ~hist.trip.append
    /\ hist.trip.pre = <<1, 2>> /\ hist.trip.b = <<3>>
    /\ SliceBytes(arrays, nodes[Find(nodes, Root, pAX)].content) = <<3, 2>>

\* C27: on a handle opened read-write without O_APPEND, Read and Write share
\* one cursor: when only Reads have moved it, to k, the Write that follows a
\* Read overwrites the bytes k .. k+len(p)-1.
WriteGoesOnWhereReadStopped ==
    [][\A t \in Threads :
        LET h == hd[t]
            old == SliceBytes(arrays, h.buf)
            new == SliceBytes(arrays', hd'[t].buf)
        IN (/\ CallsOnFile(t, "Write") /\ ret'.err = "ok"
            /\ HasFlag(h.flag, O_RDWR) /\ ~HasFlag(h.flag, O_APPEND)
            /\ ret.t = t /\ ret.op = "Read" /\ ret.err = "ok"
            /\ hist.cur[t] = 0)
            => new = Overwrite(old, h.readCursor, ret'.data)
    ]_vars

\* C28: Seek on a file handle yields an offset within [0, content length]:
\* from the origin it is the offset, from the current offset it is the cursor
\* plus the offset, both clamped to [0, length], and from the end it is the
\* length minus the offset, clamped to 0 from below.
SeekStaysWithinContent ==
    [][\A t \in Threads :
        LET h == hd[t]
            length == h.buf.n
            offset == ret'.data[1]
            whence == ret'.data[2]
            clamp(x) == Max(0, Min(x, length))
        IN (CallsOnFile(t, "Seek") /\ ret'.err = "ok") =>
            /\ ret'.offset \in 0..length
            /\ whence = SeekWhenceRelativeOrigin => ret'.offset = clamp(offset)
            /\ whence = SeekWhenceRelativeCurrentOffset =>
                  \E c \in {h.readCursor, h.writeCursor} : ret'.offset = clamp(c + offset)
            /\ whence = SeekWhenceRelativeEnd => ret'.offset = Max(length - offset, 0)
    ]_vars

\* C29: SameFile(fi1, fi2) is true if and only if the two results of Stat are
\* of the same node: also when Link has given one node two names, and when a
\* path was removed and made again with another node.
SameFileIffSameNode ==
    Len(hist.infos) = 2 =>
        (SameFile(hist.infos[1], hist.infos[2]) <=> hist.infos[1].node = hist.infos[2].node)

\* the node n has no name any more: no path from the root leads to it
Detached(ns, n) == n \notin Reach(ns, {Root})

\* C30: a file whose name is removed (by Remove, or by a Rename onto the
\* name) while a handle on it is open stays operable through the handle:
\* Remove and Rename never wait for the lock of the node of an open handle,
\* Read and Write on the handle of a node that has no name any more succeed
\* on that node's bytes, and Close succeeds and leaves the node's lock free.
RemovedFileStaysOperable ==
    [][\A t \in Threads :
        LET h == hd[t]
            r == th[t]
            old == SliceBytes(arrays, h.buf)
        IN
        /\ (r.op \in {"Remove", "Rename"} /\ th'[t] # r /\ th'[t].pc \in {"lock", "rlock"}) =>
                \A u \in Threads : hd[u].open => th'[t].lockn # hd[u].node
        /\ (h.open /\ Detached(nodes, h.node)) =>
            /\ (CallsOnFile(t, "Read") /\ h.readable) =>
                /\ ret'.err = IF h.readCursor >= Len(old) THEN "EOF" ELSE "ok"
                /\ ret'.err = "ok" =>
                      /\ ret'.data # <<>>
                      /\ \E n \in 1..Len(old) :
                            ret'.data = SubSeq(old, h.readCursor + 1, h.readCursor + n)
                /\ hd'[t].open /\ hd'[t].node = h.node
            /\ (CallsOnFile(t, "Write") /\ h.writable) =>
                /\ ret'.err = "ok"
                /\ SliceBytes(arrays', hd'[t].buf) = Overwrite(old, h.writeCursor, ret'.data)
                /\ hd'[t].open /\ hd'[t].node = h.node
            /\ CallsOnFile(t, "Close") =>
                /\ ret'.err = "ok"
                /\ ~hd'[t].open
                /\ locks'[h.node].r[t] = 0
                /\ h.writable => locks'[h.node] = FreeLock
    ]_vars

\* C30 witness: "a/x" was removed while a handle that writes was open on it;
\* bytes were written through the handle, and now it is closed and nothing
\* refers to the node any more
RemovedFileClosed ==
    /\ ret.op = "Close" /\ ret.err = "ok" /\ ret.path = pAX
    /\ hist.trip.stage = "written" /\ hist.trip.b # <<>>
    /\ nodes[ret.node].kind = "free" /\ locks[ret.node] = FreeLock
    /\ Child(nodes, 2, <<"x">>) = Nil

\* the goroutine t holds the lock of the node n, for reading or for writing
HoldsLock(L, n, t) == (L[n].w = t /\ L[n].held) \/ L[n].r[t] > 0

\* the goroutine that takes the step
Steps(t) == th'[t] # th[t] \/ calls'[t] # calls[t]

\* C31: every change of the state of a node (its child mapping, its
\* permission bits, its content) is made by a goroutine that holds the lock
\* of that node at the moment of the change.
ChangesUnderOwnLock ==
    [][\A n \in NodeIds :
        (nodes[n].kind # "free" /\ nodes'[n].kind # "free" /\ nodes'[n] # nodes[n]) =>
            \E t \in Threads : Steps(t) /\ HoldsLock(locks, n, t)
    ]_vars

\* C32: no read of a node's metadata or content runs while another goroutine
\* holds the write lock of that node: neither a Stat of a path, nor a Stat
\* through a symlink, nor the stat of every child that a directory handle
\* makes for its listing.
ReadsWaitForWriter ==
    [][\A t \in Threads :
        LET WriteHeldByOther(n) ==
                \E u \in Threads \ {t} : locks[n].w = u /\ locks[n].held
        IN
        /\ (th[t].op = "Stat" /\ ret'.t = t /\ ret'.op = "Stat" /\ ret'.err = "ok") =>
                ~WriteHeldByOther(ret'.node)
        /\ (hd[t].open /\ hd[t].isdir /\ ret'.t = t /\ ret'.op = "ReadDir"
            /\ ~hd[t].hasEntries /\ hd'[t].hasEntries) =>
                \A c \in ChildrenOf(nodes, hd[t].node) : ~WriteHeldByOther(c)
    ]_vars

\* C33: when the open of a file returns its handle, the buffer of the handle
\* equals the content of the node at that moment and, with O_APPEND, the write
\* cursor equals the length of that content, also when the open had to wait
\* for the handle of another writer to be closed.
OpenSeesCommittedContent ==
    [][\A t \in Threads :
        LET h == hd'[t]
            content == nodes'[h.node].content
        IN (th[t].pc = "open_ret" /\ h.open /\ ~h.isdir) =>
            /\ SliceBytes(arrays', h.buf) = SliceBytes(arrays', content)
            /\ (h.writable /\ HasFlag(h.flag, O_APPEND)) => h.writeCursor = content.n
    ]_vars

\* name leads to a directory in the tree ns
IsDirAt(ns, name) == Find(ns, Root, name) # Nil /\ ns[Find(ns, Root, name)].kind = "dir"

\* C34: when two goroutines have called MkdirAll and both calls have returned
\* nil, the paths of both are directories: no MkdirAll that succeeds discards
\* a directory the other has made.
MkdirAllKeepsTheOthers ==
    \A t, u \in Threads :
        LET a == hist.helped[t]
            b == hist.helped[u]
        IN (/\ t # u
            /\ th[t].gen.op = "none" /\ th[u].gen.op = "none"
            /\ a.op = "fsx.MkdirAll" /\ a.err = "ok"
            /\ b.op = "fsx.MkdirAll" /\ b.err = "ok")
            => (IsDirAt(nodes, a.arg) /\ IsDirAt(nodes, b.arg))

\* the directory n is reachable from itself through child mappings
OnCycle(ns, n) == ns[n].kind = "dir" /\ n \in Reach(ns, ChildrenOf(ns, n))

\* C35: after the calls that succeed no directory is reachable from itself
\* through child mappings, and the node a Rename has moved is reachable from
\* the root under its new path.
TreeStaysATree ==
    [][/\ \A n \in NodeIds : ~OnCycle(nodes', n)
       /\ \A t \in Threads :
            (th[t].op = "Rename" /\ Returns(t) /\ ret'.err = "ok") =>
                Find(nodes', Root, th[t].path2) = th[t].found
    ]_vars

\* C36: an OpenFile that returns an error leaves the tree as it was when it
\* was called; so does the OpenFile with O_WRONLY|O_CREATE|O_TRUNC that
\* WriteFile begins with, whose permission bits may not grant writing.
OpenFileErrorLeavesTree ==
    [][\A t \in Threads :
        (/\ th[t].gen.op = "fsx.WriteFile" /\ th[t].gen.pc = "open"
         /\ th[t].op = "OpenFile" /\ Returns(t) /\ ret'.err # "ok")
            => nodes' = hist.before
    ]_vars

\* C37: OpenFile holds the write lock of the parent directory for the
\* existence check and the creation only: a goroutine that waits in OpenFile
\* for the lock of a file on which another goroutine holds a writable handle
\* does not hold the lock of the parent, so that calls on other entries of
\* the directory go on.
OpenFileWaitsWithoutParentLock ==
    \A b \in Threads :
        LET r == th[b] IN
        (/\ r.op = "OpenFile" /\ r.cont = "open_ret" /\ r.pc \in {"lock", "lockwait", "rlock"}
         /\ \E a \in Threads \ {b} : hd[a].open /\ hd[a].writable /\ hd[a].node = r.lockn)
            => ~HoldsLock(locks, r.old, b)

\* the read locks of the node n that the call of t in progress has taken:
\* those t holds, but for the one that belongs to its open handle
ReadLocksOfCall(t, n) ==
    locks[n].r[t] - (IF hd[t].open /\ ~hd[t].writable /\ hd[t].node = n THEN 1 ELSE 0)

\* C38: no call takes the read lock of a node while it holds a read lock of
\* that node already.
NoReentrantReadLock ==
    \A t \in Threads : \A n \in NodeIds : ReadLocksOfCall(t, n) <= 1

\* C39: lock balance: a goroutine that has no call in progress holds no lock
\* but the one of its open handle, whether its calls have succeeded or failed;
\* so when no call is in progress and every handle is closed, no lock of any
\* node is held for reading or for writing.
LockBalance ==
    /\ \A t \in Threads : th[t].pc = "idle" => HoldsOnlyHandleLock(locks, t)
    /\ (\A t \in Threads : th[t].pc = "idle" /\ ~hd[t].open) =>
            \A n \in NodeIds : locks[n] = FreeLock

\* C39 witness: the handle was closed, no call is in progress and no lock is
\* held, after a call of OpenFile, Open that returned the handle
AllClosedAndFree ==
    /\ ret.op = "Close" /\ ret.err = "ok"
    /\ \A t \in Threads : th[t].pc = "idle" /\ ~hd[t].open
    /\ \A n \in NodeIds : locks[n] = FreeLock

\* the segments of a path: the names between the separators
RECURSIVE SegmentsOf(_)
SegmentsOf(p) ==
    IF Len(p) = 0 THEN <<>>
    ELSE IF \E i \in 1..Len(p) : p[i] = Separator
    THEN LET i == CHOOSE k \in 1..Len(p) :
                    p[k] = Separator /\ \A j \in 1..(k - 1) : p[j] # Separator
         IN <<SubSeq(p, 1, i - 1)>> \o SegmentsOf(SubSeq(p, i + 1, Len(p)))
    ELSE <<p>>

\* the node the segments lead to from the directory d, one child mapping at a
\* time: none when a segment is absent, or when a segment that is not the
\* last names something that is no directory
RECURSIVE Walk(_, _, _)
Walk(ns, d, segs) ==
    IF Len(segs) = 0 THEN d
    ELSE IF segs[1] \notin DOMAIN ns[d].children THEN Nil
    ELSE LET c == ns[d].children[segs[1]] IN
         IF Len(segs) = 1 THEN c
         ELSE IF ns[c].kind # "dir" THEN Nil
         ELSE Walk(ns, c, Tail(segs))

\* the read locks of the node n that the caller of find holds: those the
\* call of t has taken and will release when it returns, and the one of t's
\* open handle
CallerReads(t, n) ==
    Cardinality({i \in 1..Len(th[t].defer) : th[t].defer[i].n = n /\ th[t].defer[i].m = "r"})
    + (IF hd[t].open /\ ~hd[t].writable /\ hd[t].node = n THEN 1 ELSE 0)

\* C40: find returns the node that the segments of the path lead to from the
\* root, one child mapping at a time, and not-found exactly when a segment is
\* absent or a segment that is not the last names a file or a symlink; the
\* empty path gives the directory itself; find changes no node, and when it
\* has returned it holds no lock: the goroutine holds the locks its caller
\* had taken before.
FindWalksThePath ==
    [][\A t \in Threads :
        LET r == th[t]
            name == IF r.sym THEN r.via ELSE r.path
            started == th'[t]
        IN
        /\ r.pc = "find" => nodes' = nodes
        /\ (r.pc = "find" /\ th'[t].pc # "find") =>
            /\ th'[t].found = Walk(nodes, Root, SegmentsOf(name))
            /\ \A n \in NodeIds :
                  /\ locks'[n].r[t] = CallerReads(t, n)
                  /\ locks'[n].w = locks[n].w /\ locks'[n].held = locks[n].held
        /\ (r.pc = "idle" /\ started.op \in {"Open", "Stat"} /\ started.path = <<>>) =>
            /\ started.pc # "find" /\ started.found = Root
            /\ \A n \in NodeIds :
                  locks'[n].r[t] = locks[n].r[t] + (IF started.op = "Stat" /\ n = Root THEN 1 ELSE 0)
    ]_vars

\* C40 witness: Open("a/y/z/x") has failed with not-found in the tree where
\* "a/y/z" is a file: the path goes on behind a file
FoundNothingBehindFile ==
    /\ ret.op = "Open" /\ ret.err = "ErrNotExist" /\ ret.path = pAYZX
    /\ Walk(nodes, Root, SegmentsOf(pAYZ)) # Nil
    /\ nodes[Walk(nodes, Root, SegmentsOf(pAYZ))].kind = "file"
    /\ \A n \in NodeIds : locks[n] = FreeLock

====
